---- MODULE Spec2Model ----
(***************************************************************************)
(* Model of the appointment-slot availability calculator of the booking    *)
(* wizard (the DateTimeSelector component), of the data it reads and of    *)
(* the booking service that stores what the wizard submits.                *)
(*                                                                         *)
(* Representation                                                          *)
(*   - an instant (JS Date) is a number of minutes since the Unix epoch,   *)
(*     in UTC; NoDate stands for null / undefined;                         *)
(*   - a time-zone is its offset from UTC in minutes;                      *)
(*   - a date-key ("YYYY-MM-DD") is the number of the day since the epoch: *)
(*     the fixed-width strings compare as the day numbers do;              *)
(*   - a time string "HH:MM" is the pair <<HH, MM>>;                       *)
(*   - an optional property of a JS object is a record field that may be   *)
(*     absent (Has(r, f) tells whether it is there).                       *)
(***************************************************************************)
EXTENDS Integers, Sequences, FiniteSets, TLC

VARIABLES
    selectedDate,        \* data.selectedDate of the booking wizard
    selectedServiceIds,  \* data.selectedServiceIds
    therapistId,         \* data.therapistId ("" when none is selected)
    businessHours,       \* useBusinessHours(locationId).businessHours
    overrides,           \* useOverrides(locationId).overrides
    services,            \* useServices(specialtyId).services
    therapistBookings,   \* useTherapistBookings().bookings
    slotAvailability,    \* the memo of checkSlotAvailability (useState)
    allTimeSlots,        \* the memoised slot list (useMemo)
    deviceOffset,        \* UTC offset of the device's local time-zone
    calls,               \* history: invocations of the calculator recorded so far
    now,                 \* useNow(): the instant the view took as "now"
    selectable,          \* the calendar: isDateAvailable(date) of each date it shows
    returned,            \* what checkSlotAvailability returned to the buttons' effects
    bookingRecords,      \* the rows of prisma.booking, in order of creation
    lastCall,            \* the last call of createBookingFromForm and its outcome
    selectedTime,        \* data.selectedTime of the booking wizard
    lastClick,           \* the last click on a slot button and what it did
    lastQuery,           \* the last query of the booking service and its answer
    locations,           \* the rows of prisma.location, by id
    locationFormData,    \* formData of each mounted LocationForm (its coordinates)
    loading,             \* useLocationOperations().loading
    isAddingNew,         \* LocationsPage: the form of a new location is shown
    expandedLocation,    \* LocationsPage: the form that is expanded ("" for null)
    deleteDialogOpen,    \* LocationsPage: the confirmation dialog is open
    locationIdToDelete,  \* LocationsPage: the id awaiting confirmation ("" for null)
    invoked,             \* history: the last operation on the locations and who invoked it
    requestedId,         \* history: the id last passed to handleDeleteLocation ("": none)
    businessHoursTable,  \* the rows of prisma.businessHours, with their time slots
    serverOffset         \* UTC offset of the local time-zone of the server

\* the selector: the wizard's data it reads, what its hooks deliver, its memos
selectorVars == <<selectedDate, selectedServiceIds, therapistId, businessHours, overrides,
                  services, therapistBookings, slotAvailability, allTimeSlots,
                  deviceOffset, calls, now, selectable, returned>>

\* the wizard's choice of a time
pickVars == <<selectedTime, lastClick>>

\* the locations page and the location table
pageVars == <<locations, locationFormData, loading, isAddingNew, expandedLocation,
              deleteDialogOpen, locationIdToDelete, invoked, requestedId>>

\* what the queries of the booking service read and answer
serviceVars == <<lastQuery, businessHoursTable, serverOffset>>

\* the booking service's queries and the administration of the locations
officeVars == <<serviceVars, pageVars>>

vars == <<selectedDate, selectedServiceIds, therapistId, businessHours, overrides,
          services, therapistBookings, slotAvailability, allTimeSlots,
          deviceOffset, calls, now, selectable, returned, bookingRecords, lastCall,
          pickVars, officeVars>>

----------------------------------------------------------------------------
(* Generic helpers *)

Has(r, f) == f \in DOMAIN r

\* Array.prototype.find: of the indices of the elements that pass the test, the
\* first one (0 when none passes)
FindIndex(passing) ==
    IF passing = {} THEN 0 ELSE CHOOSE i \in passing : \A j \in passing : i <= j

Range(s) == {s[i] : i \in 1..Len(s)}

RECURSIVE SumSeq(_)
SumSeq(s) == IF s = <<>> THEN 0 ELSE Head(s) + SumSeq(Tail(s))

\* the elements of a set of numbers as an ascending sequence
RECURSIVE SortedSeq(_)
SortedSeq(S) ==
    IF S = {} THEN <<>>
    ELSE LET m == CHOOSE x \in S : \A y \in S : x <= y
         IN <<m>> \o SortedSeq(S \ {m})

----------------------------------------------------------------------------
(* Time-zone utilities (lib/utils/timezone) *)

NoDate == -1

MinutesPerDay == 1440

\* the reference time-zone, as its offset from UTC in minutes (UTC-8)
PST_TZ == -480

DaysOfWeek == <<"Sunday", "Monday", "Tuesday", "Wednesday", "Thursday", "Friday", "Saturday">>

\* minutes since the epoch on the wall clock of time-zone tz
WallClock(date, tz) == date + tz

\* dateKeyInTZ(date, tz): the calendar day of the instant in tz
dateKeyInTZ(date, tz) == WallClock(date, tz) \div MinutesPerDay

\* dayOfWeekInTZ(date, tz): the weekday of that day (day 0, 1970-01-01, is a Thursday)
dayOfWeekInTZ(date, tz) == DaysOfWeek[((dateKeyInTZ(date, tz) + 4) % 7) + 1]

\* Intl.DateTimeFormat('en-US', {hour: '2-digit', minute: '2-digit', hour12: false,
\* timeZone}).format(date): the wall-clock "HH:MM" of the instant in tz, the hour
\* counted from 00 to 23
FormatHHMM(date, tz) ==
    LET m == WallClock(date, tz) % MinutesPerDay
    IN <<m \div 60, m % 60>>

\* the instant at which the wall clock of tz shows day `day`, time hh:mm
At(day, hh, mm, tz) == day * MinutesPerDay + hh * 60 + mm - tz

----------------------------------------------------------------------------
(* The availability calculator (DateTimeSelector) *)

\* a variant that compares the time of day only, on whatever day the booking is
isTimeSlotBookedAnyDay(date, timeSlot, bookings) ==
    \E i \in 1..Len(bookings) :
        /\ Has(bookings[i], "bookingSchedule")
        /\ FormatHHMM(bookings[i].bookingSchedule, PST_TZ) = timeSlot

\* a variant that trusts the memo of availability before it looks at the bookings
isTimeSlotBookedFromMemo(date, timeSlot, bookings) ==
    IF <<dateKeyInTZ(date, PST_TZ), timeSlot>> \in DOMAIN slotAvailability
    THEN ~slotAvailability[<<dateKeyInTZ(date, PST_TZ), timeSlot>>]
    ELSE \E i \in 1..Len(bookings) :
            /\ Has(bookings[i], "bookingSchedule")
            /\ dateKeyInTZ(bookings[i].bookingSchedule, PST_TZ) = dateKeyInTZ(date, PST_TZ)
            /\ FormatHHMM(bookings[i].bookingSchedule, PST_TZ) = timeSlot

\* isTimeSlotBooked(date, timeSlot), reading the bookings of the render: some
\* booking has the same reference-zone date-key and the same "HH:MM"
isTimeSlotBooked(date, timeSlot, bookings) ==
    IF Len(bookings) = 0 THEN FALSE
    ELSE LET selectedDateStr == dateKeyInTZ(date, PST_TZ)
         IN \E i \in 1..Len(bookings) :
               /\ Has(bookings[i], "bookingSchedule")
               /\ LET bookingDate == bookings[i].bookingSchedule
                      bookingDateStr == dateKeyInTZ(bookingDate, PST_TZ)
                      bookingTimeStr == FormatHHMM(bookingDate, PST_TZ)
                  IN bookingDateStr = selectedDateStr /\ bookingTimeStr = timeSlot

\* serviceDuration: the duration of the first service (in the order of `services`)
\* whose id is selected, 0 when nothing is selected or nothing is found
serviceDuration(serviceIds, svcs) ==
    IF Len(serviceIds) = 0 THEN 0
    ELSE LET Selected(service) == service.id \in Range(serviceIds)
             i == FindIndex({k \in 1..Len(svcs) : Selected(svcs[k])})
         IN IF i = 0 THEN 0 ELSE svcs[i].duration

\* timeToMinutes("HH:MM")
timeToMinutes(time) == time[1] * 60 + time[2]

\* the fallback step of the generation loop
FallbackInterval == 30

\* minutesToTime(minutes): the 24h value and the label. The label is the time of
\* day, in the reference zone, of the instant at which the DEVICE's wall clock
\* shows hours:mins (Date.prototype.setHours works in the device's zone).
minutesToTime(minutes, devOffset) ==
    LET hours == minutes \div 60
        mins == minutes % 60
        shown == (minutes - devOffset + PST_TZ) % MinutesPerDay
    IN [value |-> <<hours, mins>>, display |-> <<shown \div 60, shown % 60>>]

\* a variant that consults the last override containing the date
overrideForDayLast(ovs, selectedKey) ==
    LET Contains(o) == /\ selectedKey >= dateKeyInTZ(o.startDate, PST_TZ)
                       /\ selectedKey <= dateKeyInTZ(o.endDate, PST_TZ)
        found == {i \in 1..Len(ovs) : Contains(ovs[i])}
    IN IF found = {} THEN 0 ELSE CHOOSE i \in found : \A j \in found : j <= i

\* the override the calculator consults: the first one whose date-key range
\* contains the selected date-key (0 when there is none)
overrideForDay(ovs, selectedKey) ==
    LET Contains(o) ==
            LET startKey == dateKeyInTZ(o.startDate, PST_TZ)
                endKey == dateKeyInTZ(o.endDate, PST_TZ)
            IN selectedKey >= startKey /\ selectedKey <= endKey
    IN FindIndex({i \in 1..Len(ovs) : Contains(ovs[i])})

\* effectiveSlots: the windows of an override, a missing isActive read as true
effectiveSlots(o) ==
    [i \in 1..Len(o.timeSlots) |->
        [startTime |-> o.timeSlots[i].startTime,
         endTime |-> o.timeSlots[i].endTime,
         isActive |-> IF Has(o.timeSlots[i], "isActive")
                      THEN o.timeSlots[i].isActive ELSE TRUE]]

\* a variant that lets the weekly hours win over the override's windows
baseSlotsWeeklyFirst(date, bhs, ovs) ==
    LET dayOfWeek == dayOfWeekInTZ(date, PST_TZ)
        oi == overrideForDay(ovs, dateKeyInTZ(date, PST_TZ))
        Matches(bh) == bh.dayOfWeek = dayOfWeek /\ bh.isActive
        bi == FindIndex({i \in 1..Len(bhs) : Matches(bhs[i])})
    IN IF bi # 0 /\ Has(bhs[bi], "timeSlots") THEN bhs[bi].timeSlots
       ELSE IF oi # 0 /\ Has(ovs[oi], "timeSlots") /\ Len(ovs[oi].timeSlots) > 0
       THEN effectiveSlots(ovs[oi])
       ELSE <<>>

\* a variant that takes the weekly entry of the weekday even when it is switched off
baseSlotsInactiveEntry(date, bhs, ovs) ==
    LET dayOfWeek == dayOfWeekInTZ(date, PST_TZ)
        oi == overrideForDay(ovs, dateKeyInTZ(date, PST_TZ))
        Matches(bh) == bh.dayOfWeek = dayOfWeek
        bi == FindIndex({i \in 1..Len(bhs) : Matches(bhs[i])})
    IN IF oi # 0 /\ Has(ovs[oi], "timeSlots") /\ Len(ovs[oi].timeSlots) > 0
       THEN effectiveSlots(ovs[oi])
       ELSE IF bi # 0 /\ Has(bhs[bi], "timeSlots") THEN bhs[bi].timeSlots
       ELSE <<>>

\* a variant in which an override without windows leaves the day without windows
baseSlotsEmptyOverride(date, bhs, ovs) ==
    LET dayOfWeek == dayOfWeekInTZ(date, PST_TZ)
        oi == overrideForDay(ovs, dateKeyInTZ(date, PST_TZ))
        Matches(bh) == bh.dayOfWeek = dayOfWeek /\ bh.isActive
        bi == FindIndex({i \in 1..Len(bhs) : Matches(bhs[i])})
    IN IF oi # 0
       THEN IF Has(ovs[oi], "timeSlots") THEN effectiveSlots(ovs[oi]) ELSE <<>>
       ELSE IF bi # 0 /\ Has(bhs[bi], "timeSlots") THEN bhs[bi].timeSlots
       ELSE <<>>

\* baseSlots: the override's windows when it has some, else the windows of the
\* first active weekly entry of the weekday (<<>> stands for undefined as well:
\* the code returns [] for both)
baseSlots(date, bhs, ovs) ==
    LET dayOfWeek == dayOfWeekInTZ(date, PST_TZ)
        oi == overrideForDay(ovs, dateKeyInTZ(date, PST_TZ))
        Matches(bh) == bh.dayOfWeek = dayOfWeek /\ bh.isActive
        bi == FindIndex({i \in 1..Len(bhs) : Matches(bhs[i])})
    IN IF oi # 0 /\ Has(ovs[oi], "timeSlots") /\ Len(ovs[oi].timeSlots) > 0
       THEN effectiveSlots(ovs[oi])
       ELSE IF bi # 0 /\ Has(bhs[bi], "timeSlots") THEN bhs[bi].timeSlots
       ELSE <<>>

\* a variant that forgets the active flag
IsValidSlotAnyState(slot, totalDuration) ==
    timeToMinutes(slot.endTime) - timeToMinutes(slot.startTime) >= totalDuration

\* the filter of validSlots: active and long enough for the service
IsValidSlot(slot, totalDuration) ==
    /\ Has(slot, "isActive") /\ slot.isActive
    /\ timeToMinutes(slot.endTime) - timeToMinutes(slot.startTime) >= totalDuration

validSlots(slots, totalDuration) ==
    LET Keep(slot) == IsValidSlot(slot, totalDuration)
    IN SelectSeq(slots, Keep)

\* a variant whose last candidate must end strictly before the window's end
RECURSIVE SlotLoopStrict(_, _, _, _, _, _, _)
SlotLoopStrict(minutes, slotEndMinutes, totalDuration, slotInterval, date, bookings, devOffset) ==
    IF minutes + totalDuration < slotEndMinutes
    THEN LET timeSlot == minutesToTime(minutes, devOffset)
         IN <<[value |-> timeSlot.value,
               display |-> timeSlot.display,
               isBooked |-> isTimeSlotBooked(date, timeSlot.value, bookings)]>>
            \o SlotLoopStrict(minutes + slotInterval, slotEndMinutes, totalDuration,
                              slotInterval, date, bookings, devOffset)
    ELSE <<>>

\* a variant that leaves the booked candidates out
RECURSIVE SlotLoopHideBooked(_, _, _, _, _, _, _)
SlotLoopHideBooked(minutes, slotEndMinutes, totalDuration, slotInterval, date, bookings, devOffset) ==
    IF minutes + totalDuration <= slotEndMinutes
    THEN LET timeSlot == minutesToTime(minutes, devOffset)
             rest == SlotLoopHideBooked(minutes + slotInterval, slotEndMinutes, totalDuration,
                                        slotInterval, date, bookings, devOffset)
         IN IF isTimeSlotBooked(date, timeSlot.value, bookings) THEN rest
            ELSE <<[value |-> timeSlot.value, display |-> timeSlot.display,
                    isBooked |-> FALSE]>> \o rest
    ELSE <<>>

\* the for loop over one window: from `minutes`, while minutes + totalDuration
\* fits before slotEndMinutes, in steps of slotInterval
RECURSIVE SlotLoop(_, _, _, _, _, _, _)
SlotLoop(minutes, slotEndMinutes, totalDuration, slotInterval, date, bookings, devOffset) ==
    IF minutes + totalDuration <= slotEndMinutes
    THEN LET timeSlot == minutesToTime(minutes, devOffset)
         IN <<[value |-> timeSlot.value,
               display |-> timeSlot.display,
               isBooked |-> isTimeSlotBooked(date, timeSlot.value, bookings)]>>
            \o SlotLoop(minutes + slotInterval, slotEndMinutes, totalDuration,
                        slotInterval, date, bookings, devOffset)
    ELSE <<>>

\* a variant that steps by the fixed interval whatever the service lasts
RECURSIVE ForEachSlotFixedStep(_, _, _, _, _)
ForEachSlotFixedStep(valid, duration, date, bookings, devOffset) ==
    IF valid = <<>> THEN <<>>
    ELSE LET slot == Head(valid)
         IN SlotLoop(timeToMinutes(slot.startTime), timeToMinutes(slot.endTime),
                     duration, FallbackInterval, date, bookings, devOffset)
            \o ForEachSlotFixedStep(Tail(valid), duration, date, bookings, devOffset)

\* a variant that puts the slots of a later window in front
RECURSIVE ForEachSlotReversed(_, _, _, _, _)
ForEachSlotReversed(valid, duration, date, bookings, devOffset) ==
    IF valid = <<>> THEN <<>>
    ELSE LET slot == Head(valid)
             slotInterval == IF duration > 0 THEN duration ELSE FallbackInterval
         IN ForEachSlotReversed(Tail(valid), duration, date, bookings, devOffset)
            \o SlotLoop(timeToMinutes(slot.startTime), timeToMinutes(slot.endTime),
                        duration, slotInterval, date, bookings, devOffset)

\* a variant that leaves out a time an earlier window has contributed already
RECURSIVE ForEachSlotDedup(_, _, _, _, _)
ForEachSlotDedup(valid, duration, date, bookings, devOffset) ==
    IF valid = <<>> THEN <<>>
    ELSE LET slot == Head(valid)
             slotInterval == IF duration > 0 THEN duration ELSE FallbackInterval
             first == SlotLoop(timeToMinutes(slot.startTime), timeToMinutes(slot.endTime),
                               duration, slotInterval, date, bookings, devOffset)
             IsNew(s) == \A p \in 1..Len(first) : first[p].value # s.value
         IN first \o SelectSeq(ForEachSlotDedup(Tail(valid), duration, date, bookings,
                                                devOffset), IsNew)

\* validSlots.forEach(...): the slots of every window, appended in window order
RECURSIVE ForEachSlot(_, _, _, _, _)
ForEachSlot(valid, duration, date, bookings, devOffset) ==
    IF valid = <<>> THEN <<>>
    ELSE LET slot == Head(valid)
             slotInterval == IF duration > 0 THEN duration ELSE FallbackInterval
         IN SlotLoop(timeToMinutes(slot.startTime), timeToMinutes(slot.endTime),
                     duration, slotInterval, date, bookings, devOffset)
            \o ForEachSlot(Tail(valid), duration, date, bookings, devOffset)

\* a variant that does not look at the closed flag of the override
allTimeSlotsCalcIgnoreClosed(date, bhs, ovs, totalDuration, bookings, devOffset) ==
    IF date = NoDate \/ Len(bhs) = 0 \/ totalDuration = 0 THEN <<>>
    ELSE ForEachSlot(validSlots(baseSlots(date, bhs, ovs), totalDuration),
                     totalDuration, date, bookings, devOffset)

\* a variant without the guard on a zero duration
allTimeSlotsCalcNoDurationGuard(date, bhs, ovs, totalDuration, bookings, devOffset) ==
    IF date = NoDate \/ Len(bhs) = 0 THEN <<>>
    ELSE LET oi == overrideForDay(ovs, dateKeyInTZ(date, PST_TZ))
         IN IF oi # 0 /\ Has(ovs[oi], "isClosed") /\ ovs[oi].isClosed THEN <<>>
            ELSE ForEachSlot(validSlots(baseSlots(date, bhs, ovs), totalDuration),
                             totalDuration, date, bookings, devOffset)

\* the body of the allTimeSlots memo
allTimeSlotsCalc(date, bhs, ovs, totalDuration, bookings, devOffset) ==
    IF date = NoDate \/ Len(bhs) = 0 \/ totalDuration = 0 THEN <<>>
    ELSE LET oi == overrideForDay(ovs, dateKeyInTZ(date, PST_TZ))
         IN IF oi # 0 /\ Has(ovs[oi], "isClosed") /\ ovs[oi].isClosed THEN <<>>
            ELSE ForEachSlot(validSlots(baseSlots(date, bhs, ovs), totalDuration),
                             totalDuration, date, bookings, devOffset)

\* a variant that compares the instants themselves, not their date-keys
isDateAvailableByInstant(date, nowDate, bhs, ovs) ==
    LET dateKey == dateKeyInTZ(date, PST_TZ)
        Contains(o) == /\ dateKey >= dateKeyInTZ(o.startDate, PST_TZ)
                       /\ dateKey <= dateKeyInTZ(o.endDate, PST_TZ)
        oi == IF Len(ovs) = 0 THEN 0 ELSE FindIndex({i \in 1..Len(ovs) : Contains(ovs[i])})
        hasActiveSlots ==
            /\ oi # 0 /\ Has(ovs[oi], "timeSlots")
            /\ \E i \in 1..Len(ovs[oi].timeSlots) :
                  ~(Has(ovs[oi].timeSlots[i], "isActive") /\ ovs[oi].timeSlots[i].isActive = FALSE)
        dayOfWeek == dayOfWeekInTZ(date, PST_TZ)
        Matches(bh) == bh.dayOfWeek = dayOfWeek /\ bh.isActive
        bi == FindIndex({i \in 1..Len(bhs) : Matches(bhs[i])})
    IN IF date < nowDate THEN FALSE
       ELSE IF oi # 0 /\ Has(ovs[oi], "isClosed") /\ ovs[oi].isClosed THEN FALSE
       ELSE IF hasActiveSlots THEN TRUE
       ELSE /\ bi # 0 /\ Has(bhs[bi], "timeSlots") /\ Len(bhs[bi].timeSlots) > 0
            /\ \E i \in 1..Len(bhs[bi].timeSlots) :
                  Has(bhs[bi].timeSlots[i], "isActive") /\ bhs[bi].timeSlots[i].isActive

\* isDateAvailable(date): not before today (by date-key of the reference zone);
\* then the first override containing the date decides when it is closed or has a
\* window that is not switched off; else the active weekly entry of the weekday
\* decides, by having an active window
isDateAvailable(date, nowDate, bhs, ovs) ==
    LET todayKey == dateKeyInTZ(nowDate, PST_TZ)
        dateKey == dateKeyInTZ(date, PST_TZ)
        Contains(o) ==
            LET startKey == dateKeyInTZ(o.startDate, PST_TZ)
                endKey == dateKeyInTZ(o.endDate, PST_TZ)
            IN dateKey >= startKey /\ dateKey <= endKey
        oi == IF Len(ovs) = 0 THEN 0 ELSE FindIndex({i \in 1..Len(ovs) : Contains(ovs[i])})
        hasActiveSlots ==
            /\ oi # 0 /\ Has(ovs[oi], "timeSlots")
            /\ \E i \in 1..Len(ovs[oi].timeSlots) :
                  ~(Has(ovs[oi].timeSlots[i], "isActive") /\ ovs[oi].timeSlots[i].isActive = FALSE)
        dayOfWeek == dayOfWeekInTZ(date, PST_TZ)
        Matches(bh) == bh.dayOfWeek = dayOfWeek /\ bh.isActive
        bi == FindIndex({i \in 1..Len(bhs) : Matches(bhs[i])})
    IN IF dateKey < todayKey THEN FALSE
       ELSE IF oi # 0 /\ Has(ovs[oi], "isClosed") /\ ovs[oi].isClosed THEN FALSE
       ELSE IF hasActiveSlots THEN TRUE
       ELSE /\ bi # 0 /\ Has(bhs[bi], "timeSlots") /\ Len(bhs[bi].timeSlots) > 0
            /\ \E i \in 1..Len(bhs[bi].timeSlots) :
                  Has(bhs[bi].timeSlots[i], "isActive") /\ bhs[bi].timeSlots[i].isActive

----------------------------------------------------------------------------
(* The memo of booked-flag lookups *)

\* slotKey: `${dateKeyInTZ(date, PST_TZ)}_${timeSlot}`
slotKey(date, timeSlot) == <<dateKeyInTZ(date, PST_TZ), timeSlot>>

\* the value checkSlotAvailability(date, timeSlot) returns, given the memo, the
\* therapist and the bookings of its render
checkSlotAvailability(memo, tid, date, timeSlot, bookings) ==
    IF tid = "" THEN TRUE
    ELSE IF slotKey(date, timeSlot) \in DOMAIN memo THEN memo[slotKey(date, timeSlot)]
    ELSE ~isTimeSlotBooked(date, timeSlot, bookings)

\* the keys checkSlotAvailability(date, timeSlot) writes to the memo: its own,
\* unless no therapist is selected or the key is cached already
MemoWrites(memo, tid, date, timeSlot) ==
    IF tid = "" \/ slotKey(date, timeSlot) \in DOMAIN memo THEN {}
    ELSE {slotKey(date, timeSlot)}

\* a variant in which the effect asks for booked slots as well
EffectCallsUnguarded(slots) == 1..Len(slots)

\* the buttons whose effect calls checkSlotAvailability after a render. The
\* TimeSlotButton component is declared inside DateTimeSelector, so every render of
\* the selector mounts its buttons anew and runs the effect of each; the effect
\* returns early for a slot that is flagged booked
EffectCalls(slots) == {p \in 1..Len(slots) : ~slots[p].isBooked}

\* a variant that starts from an empty memo at every render
FlushEffectsFresh(memo, tid, slots, date, bookings) ==
    LET written == UNION {MemoWrites(<<>>, tid, date, slots[p].value) : p \in EffectCalls(slots)}
    IN [k \in written |-> ~isTimeSlotBooked(date, k[2], bookings)]

\* the memo after the effects of a render: the calls read the memo of the render
\* and their writes (functional updates of the state) are merged into it
FlushEffects(memo, tid, slots, date, bookings) ==
    LET written == UNION {MemoWrites(memo, tid, date, slots[p].value) : p \in EffectCalls(slots)}
    IN [k \in DOMAIN memo \cup written |->
           IF k \in DOMAIN memo THEN memo[k]
           ELSE ~isTimeSlotBooked(date, k[2], bookings)]

\* what the calls of the effects of one render return
Returned(memo, tid, slots, date, bookings) ==
    {[date |-> date, timeSlot |-> slots[p].value,
      available |-> checkSlotAvailability(memo, tid, date, slots[p].value, bookings)] :
        p \in EffectCalls(slots)}

----------------------------------------------------------------------------
(* The inputs the model draws from *)

\* the largest number of bookings in the therapist's list
MaxBookings == 2

\* two days of the first full week after the epoch: day 4 is Monday 1970-01-05
Day == [Mon |-> 4, Tue |-> 5]
Mon == Day.Mon
Tue == Day.Tue

\* the dates the calendar can hand to handleDateSelect: two instants of the
\* Monday of the reference zone (the second is already Tuesday in UTC) and one
\* of the Tuesday
DateMenu == {At(Mon, 0, 0, PST_TZ), At(Mon, 17, 0, PST_TZ), At(Tue, 0, 0, PST_TZ)}

\* the dates the calendar shows, and asks isDateAvailable about
CalendarDates == DateMenu

\* the instant the view is mounted at, when nothing else is said: Monday morning
MountTime == At(Mon, 8, 0, PST_TZ)

\* UTC offsets of the device the selector first runs on: UTC+1, a device outside
\* the reference zone (the sessions further down run on one inside it)
DeviceOffsets == {60}

Window(sh, sm, eh, em, active) ==
    [startTime |-> <<sh, sm>>, endTime |-> <<eh, em>>, isActive |-> active]

\* a window of an override that carries no isActive flag
BareWindow(sh, sm, eh, em) == [startTime |-> <<sh, sm>>, endTime |-> <<eh, em>>]

WeeklyHours(day, active, windows) ==
    [dayOfWeek |-> day, isActive |-> active, timeSlots |-> windows]

BusinessHoursMenu ==
    { <<>>,
      \* one morning window on Monday; Tuesday configured but switched off
      << WeeklyHours("Monday", TRUE, <<Window(9, 0, 12, 0, TRUE)>>),
         WeeklyHours("Tuesday", FALSE, <<Window(9, 0, 12, 0, TRUE)>>) >>,
      \* Monday: afternoon listed before morning; Tuesday: a window too short
      \* for most services and an inactive one
      << WeeklyHours("Monday", TRUE, <<Window(14, 0, 15, 0, TRUE), Window(9, 0, 10, 30, TRUE)>>),
         WeeklyHours("Tuesday", TRUE, <<Window(9, 0, 9, 30, TRUE), Window(10, 0, 12, 0, FALSE)>>) >>,
      \* Monday: two overlapping windows; Tuesday: an entry without time slots
      << WeeklyHours("Monday", TRUE, <<Window(9, 0, 11, 0, TRUE), Window(10, 0, 12, 0, TRUE)>>),
         [dayOfWeek |-> "Tuesday", isActive |-> TRUE] >>,
      \* only another weekday is configured
      << WeeklyHours("Wednesday", TRUE, <<Window(9, 0, 12, 0, TRUE)>>) >> }

Override(startDay, endDay, closed, windows) ==
    [startDate |-> At(startDay, 0, 0, PST_TZ), endDate |-> At(endDay, 12, 0, PST_TZ),
     isClosed |-> closed, timeSlots |-> windows]

OvClosedMon == Override(Mon, Mon, TRUE, <<>>)
OvClosedTue == Override(Tue, Tue, TRUE, <<>>)
OvOpenMonTue == Override(Mon, Tue, FALSE,
                         <<BareWindow(10, 0, 11, 30), Window(14, 0, 15, 0, FALSE)>>)
OvEmptyMon == Override(Mon, Mon, FALSE, <<>>)

OverridesMenu ==
    { <<>>,
      <<OvClosedMon>>,
      <<OvOpenMonTue>>,
      <<OvEmptyMon>>,
      <<OvClosedTue, OvOpenMonTue>>,
      <<OvOpenMonTue, OvClosedMon>>,
      <<OvClosedMon, OvOpenMonTue>>,
      <<OvEmptyMon, OvClosedMon>> }

ServicesMenu ==
    { <<>>,
      << [id |-> "s60", duration |-> 60], [id |-> "s45", duration |-> 45],
         [id |-> "s30", duration |-> 30] >> }

ServiceIdsMenu ==
    { <<>>, <<"s60">>, <<"s45">>, <<"s30">>, <<"s45", "s60">> }

\* the instants bookings are scheduled at (NoDate: a booking without a schedule)
BookingPool ==
    { NoDate,
      At(Mon, 9, 0, PST_TZ), At(Mon, 8, 59, PST_TZ), At(Mon, 10, 1, PST_TZ),
      At(Tue, 9, 0, PST_TZ) }

Booking(schedule) ==
    IF schedule = NoDate THEN [status |-> "Pending"]
    ELSE [status |-> "Pending", bookingSchedule |-> schedule]

\* the booking lists the hook can return: up to MaxBookings bookings of the pool
BookingsMenu ==
    { [i \in 1..Len(SortedSeq(S)) |-> Booking(SortedSeq(S)[i])] :
        S \in {T \in SUBSET BookingPool : Cardinality(T) <= MaxBookings} }

\* no call of createBookingFromForm has been made yet
NoCall == [outcome |-> "none"]

\* the zone tzlookup finds for a location on the east coast (UTC-5)
EST_TZ == -300

\* the location table (prisma.location): the coordinates and the zone stored with
\* each location; a location created without coordinates has no zone stored
LocationTable ==
    [la |-> [title |-> "Los Angeles", lat |-> 34, lon |-> -118, timezone |-> PST_TZ],
     ny |-> [title |-> "New York", lat |-> 40, lon |-> -74, timezone |-> EST_TZ],
     legacy |-> [title |-> "Legacy"]]

\* no time is chosen: data.selectedTime is ""
NoTime == <<>>

\* no slot button has been clicked yet
NoClick == [clicked |-> FALSE]

\* the booking service has not been asked anything yet
NoQuery == [query |-> "none"]

\* no handler of the locations page has invoked an operation yet
NoOperation == [operation |-> "none"]

\* the coordinates a LocationForm starts with: location?.lat || 0, location?.lon || 0
InitialFormData(location) ==
    [lat |-> IF Has(location, "lat") THEN location.lat ELSE 0,
     lon |-> IF Has(location, "lon") THEN location.lon ELSE 0]

\* the wizard before a time is chosen
NothingPicked ==
    /\ selectedTime = NoTime
    /\ lastClick = NoClick

\* the locations page as it is mounted over a location table: one collapsed form
\* per location, no dialog, nothing in progress
PageMounted(table) ==
    /\ locations = table
    /\ locationFormData = [id \in DOMAIN table |-> InitialFormData(table[id])]
    /\ loading = FALSE
    /\ isAddingNew = FALSE
    /\ expandedLocation = ""
    /\ deleteDialogOpen = FALSE
    /\ locationIdToDelete = ""
    /\ invoked = NoOperation
    /\ requestedId = ""

PageIdle == PageMounted(LocationTable)

\* the booking service before its first query, no business hours stored, and the
\* locations page as it is mounted
OfficeIdle ==
    /\ lastQuery = NoQuery
    /\ businessHoursTable = <<>>
    /\ serverOffset = 0
    /\ PageIdle

----------------------------------------------------------------------------
(* The component as a state machine *)

\* the state of a freshly mounted selector: nothing chosen, nothing loaded yet
Init ==
    /\ selectedDate = NoDate
    /\ selectedServiceIds = <<>>
    /\ therapistId = ""
    /\ businessHours = <<>>
    /\ overrides = <<>>
    /\ services = <<>>
    /\ therapistBookings = <<>>
    /\ slotAvailability = <<>>
    /\ allTimeSlots = <<>>
    /\ deviceOffset \in DeviceOffsets
    /\ calls = {}
    /\ now = MountTime
    /\ selectable = [d \in CalendarDates |-> isDateAvailable(d, now, businessHours, overrides)]
    /\ returned = {}
    /\ bookingRecords = <<>>
    /\ lastCall = NoCall
    /\ NothingPicked
    /\ OfficeIdle

\* the render that follows a state change: the allTimeSlots memo is recomputed
\* from the values of the new render, and the calendar asks isDateAvailable for
\* the dates it shows
Render ==
    /\ allTimeSlots' = allTimeSlotsCalc(selectedDate', businessHours', overrides',
                                        serviceDuration(selectedServiceIds', services'),
                                        therapistBookings', deviceOffset')
    /\ selectable' = [d \in CalendarDates |->
                         isDateAvailable(d, now', businessHours', overrides')]

\* the effects that follow the render: the TimeSlotButtons fill the memo. A write
\* to the memo renders the selector once more, and the buttons of that render get
\* their answers from the memo.
Effects ==
    /\ slotAvailability' = FlushEffects(slotAvailability, therapistId', allTimeSlots',
                                        selectedDate', therapistBookings')
    /\ returned' =
          Returned(slotAvailability, therapistId', allTimeSlots', selectedDate',
                   therapistBookings')
          \cup (IF slotAvailability' = slotAvailability THEN {}
                ELSE Returned(slotAvailability', therapistId', allTimeSlots', selectedDate',
                              therapistBookings'))

\* handleDateSelect(date)
handleDateSelect(date) ==
    /\ selectedDate' = IF date # NoDate THEN date ELSE selectedDate
    /\ UNCHANGED <<selectedServiceIds, therapistId, businessHours, overrides, services,
                   therapistBookings, deviceOffset, calls, now, bookingRecords, lastCall, pickVars, officeVars>>
    /\ Render
    /\ Effects

\* the wizard's selection of services changes
SelectServices(ids) ==
    /\ selectedServiceIds' = ids
    /\ UNCHANGED <<selectedDate, therapistId, businessHours, overrides, services,
                   therapistBookings, deviceOffset, calls, now, bookingRecords, lastCall, pickVars, officeVars>>
    /\ Render
    /\ Effects

\* useBusinessHours delivers the weekly hours of the location
LoadBusinessHours(bhs) ==
    /\ businessHours' = bhs
    /\ UNCHANGED <<selectedDate, selectedServiceIds, therapistId, overrides, services,
                   therapistBookings, deviceOffset, calls, now, bookingRecords, lastCall, pickVars, officeVars>>
    /\ Render
    /\ Effects

\* useOverrides delivers the date overrides of the location
LoadOverrides(ovs) ==
    /\ overrides' = ovs
    /\ UNCHANGED <<selectedDate, selectedServiceIds, therapistId, businessHours, services,
                   therapistBookings, deviceOffset, calls, now, bookingRecords, lastCall, pickVars, officeVars>>
    /\ Render
    /\ Effects

\* useServices delivers the services of the specialty
LoadServices(svcs) ==
    /\ services' = svcs
    /\ UNCHANGED <<selectedDate, selectedServiceIds, therapistId, businessHours, overrides,
                   therapistBookings, deviceOffset, calls, now, bookingRecords, lastCall, pickVars, officeVars>>
    /\ Render
    /\ Effects

\* useTherapistBookings delivers the therapist's bookings
LoadTherapistBookings(bookings) ==
    /\ therapistBookings' = bookings
    /\ UNCHANGED <<selectedDate, selectedServiceIds, therapistId, businessHours, overrides,
                   services, deviceOffset, calls, now, bookingRecords, lastCall, pickVars, officeVars>>
    /\ Render
    /\ Effects

Next ==
    \/ \E date \in DateMenu \cup {NoDate} : handleDateSelect(date)
    \/ \E ids \in ServiceIdsMenu : SelectServices(ids)
    \/ \E bhs \in BusinessHoursMenu : LoadBusinessHours(bhs)
    \/ \E ovs \in OverridesMenu : LoadOverrides(ovs)
    \/ \E svcs \in ServicesMenu : LoadServices(svcs)
    \/ \E bookings \in BookingsMenu : LoadTherapistBookings(bookings)

Spec == Init /\ [][Next]_vars

----------------------------------------------------------------------------
(* Vocabulary of the properties *)

\* the service duration of the current render
Duration == serviceDuration(selectedServiceIds, services)

MinuteOfDay(time) == time[1] * 60 + time[2]

\* the candidate times of a slot list, as minutes of the day
Minutes(slots) == [p \in 1..Len(slots) |-> MinuteOfDay(slots[p].value)]

\* the candidate times and booked flags of a slot list
ValuesAndFlags(slots) ==
    [p \in 1..Len(slots) |-> [value |-> slots[p].value, isBooked |-> slots[p].isBooked]]

SpanOf(w) == MinuteOfDay(w.endTime) - MinuteOfDay(w.startTime)

\* the windows of an override with the default of a missing active flag applied
WithDefaults(windows) ==
    [i \in 1..Len(windows) |->
        [startTime |-> windows[i].startTime, endTime |-> windows[i].endTime,
         isActive |-> (~Has(windows[i], "isActive")) \/ windows[i].isActive]]

\* the overrides whose date-key range contains the selected date
Containing ==
    IF selectedDate = NoDate THEN {}
    ELSE {i \in 1..Len(overrides) :
            /\ dateKeyInTZ(overrides[i].startDate, PST_TZ) <= dateKeyInTZ(selectedDate, PST_TZ)
            /\ dateKeyInTZ(selectedDate, PST_TZ) <= dateKeyInTZ(overrides[i].endDate, PST_TZ)}

\* the first of them in list order (0: none)
FirstContaining ==
    IF Containing = {} THEN 0 ELSE CHOOSE i \in Containing : \A j \in Containing : i <= j

IsClosed(o) == Has(o, "isClosed") /\ o.isClosed

SuppliesWindows(o) == Has(o, "timeSlots") /\ o.timeSlots # <<>>

\* the weekly windows of the selected date: those of the active entry of its weekday
WeeklyWindows ==
    IF selectedDate = NoDate THEN <<>>
    ELSE LET day == dayOfWeekInTZ(selectedDate, PST_TZ)
             E == {i \in 1..Len(businessHours) :
                     businessHours[i].dayOfWeek = day /\ businessHours[i].isActive}
         IN IF E = {} THEN <<>>
            ELSE LET e == businessHours[CHOOSE i \in E : \A j \in E : i <= j]
                 IN IF Has(e, "timeSlots") THEN e.timeSlots ELSE <<>>

\* the effective windows of the selected date (section 4.1, step 2): none when the
\* override consulted is closed, its windows when it supplies some, else the
\* weekly ones
EffectiveWindows ==
    IF FirstContaining # 0 /\ IsClosed(overrides[FirstContaining]) THEN <<>>
    ELSE IF FirstContaining # 0 /\ SuppliesWindows(overrides[FirstContaining])
    THEN WithDefaults(overrides[FirstContaining].timeSlots)
    ELSE WeeklyWindows

\* the windows that can hold a service of S minutes, in list order
Usable(windows, S) ==
    LET Fits(w) == Has(w, "isActive") /\ w.isActive /\ SpanOf(w) >= S
    IN SelectSeq(windows, Fits)

\* the start times start + k*S that leave room for S minutes before the end
ExpectedMinutes(w, S) ==
    IF S <= 0 THEN {}
    ELSE {m \in {MinuteOfDay(w.startTime) + k * S : k \in 0..(SpanOf(w) \div S)} :
            m + S <= MinuteOfDay(w.endTime)}

\* the number of candidates of the j-th usable window, and where its candidates
\* lie in the output: after those of the windows before it
CountOf(windows, S, j) == Cardinality(ExpectedMinutes(Usable(windows, S)[j], S))

OffsetOf(windows, S, j) == SumSeq([i \in 1..(j - 1) |-> CountOf(windows, S, i)])

SegmentOf(slots, windows, S, j) ==
    SubSeq(Minutes(slots), OffsetOf(windows, S, j) + 1,
           OffsetOf(windows, S, j) + CountOf(windows, S, j))

\* the candidate minutes expected of a list of windows: window after window, each
\* in ascending order
RECURSIVE ExpectedSeq(_, _)
ExpectedSeq(usable, S) ==
    IF usable = <<>> THEN <<>>
    ELSE SortedSeq(ExpectedMinutes(Head(usable), S)) \o ExpectedSeq(Tail(usable), S)

\* the calculator has what it needs to generate: a date, weekly hours, a service
Ready == selectedDate # NoDate /\ businessHours # <<>> /\ Duration > 0

----------------------------------------------------------------------------
(* A booking session with a therapist: the memo at work *)

\* the largest number of calculator invocations the history keeps
MaxCalls == 1

\* what the calculator is invoked with
Inputs ==
    [date |-> selectedDate, businessHours |-> businessHours, overrides |-> overrides,
     duration |-> Duration, bookings |-> therapistBookings]

\* the wizard's therapist changes; no button effect depends on it
SelectTherapist(tid) ==
    /\ therapistId' = tid
    /\ UNCHANGED <<selectedDate, selectedServiceIds, businessHours, overrides, services,
                   therapistBookings, deviceOffset, calls, now, bookingRecords, lastCall, pickVars, officeVars>>
    /\ Render
    /\ Effects

\* history only: note the inputs and the result of the current invocation of the
\* calculator, and the memo it ran under
Observe ==
    /\ Cardinality(calls) < MaxCalls
    /\ calls' = calls \cup {[in |-> Inputs, out |-> ValuesAndFlags(allTimeSlots),
                             memo |-> slotAvailability]}
    /\ UNCHANGED <<selectedDate, selectedServiceIds, therapistId, businessHours, overrides,
                   services, therapistBookings, slotAvailability, allTimeSlots,
                   deviceOffset, now, selectable, returned, bookingRecords, lastCall,
                   pickVars, officeVars>>

SessionDates == {At(Mon, 0, 0, PST_TZ), At(Tue, 0, 0, PST_TZ)}

SessionBookings ==
    { <<>>,
      <<Booking(At(Mon, 9, 0, PST_TZ))>>,
      <<Booking(At(Mon, 9, 0, PST_TZ)), Booking(At(Tue, 9, 0, PST_TZ))>> }

\* the selector once the location's data has arrived and a 30-minute service is
\* chosen: Monday has two windows, Tuesday one short one
SessionInit ==
    /\ selectedDate = NoDate
    /\ selectedServiceIds = <<"s30">>
    /\ therapistId = ""
    /\ businessHours =
          << WeeklyHours("Monday", TRUE, <<Window(14, 0, 15, 0, TRUE), Window(9, 0, 10, 30, TRUE)>>),
             WeeklyHours("Tuesday", TRUE, <<Window(9, 0, 9, 30, TRUE), Window(10, 0, 12, 0, FALSE)>>) >>
    /\ overrides = <<>>
    /\ services = << [id |-> "s60", duration |-> 60], [id |-> "s45", duration |-> 45],
                     [id |-> "s30", duration |-> 30] >>
    /\ therapistBookings = <<>>
    /\ slotAvailability = <<>>
    /\ allTimeSlots = <<>>
    /\ deviceOffset = PST_TZ
    /\ calls = {}
    /\ now = MountTime
    /\ selectable = [d \in CalendarDates |-> isDateAvailable(d, now, businessHours, overrides)]
    /\ returned = {}
    /\ bookingRecords = <<>>
    /\ lastCall = NoCall
    /\ NothingPicked
    /\ OfficeIdle

SessionNext ==
    \/ \E date \in SessionDates : handleDateSelect(date)
    \/ \E bookings \in SessionBookings : LoadTherapistBookings(bookings)
    \/ \E tid \in {"", "t1"} : SelectTherapist(tid)
    \/ Observe

SpecSession == SessionInit /\ [][SessionNext]_vars

----------------------------------------------------------------------------
(* The slot buttons (TimeSlotButton) *)

\* the isAvailable state of a button before its effect has run: useState(null)
NotYetKnown == [known |-> FALSE]

\* the isAvailable state of a button once its effect has run: false for a slot
\* flagged booked, else what checkSlotAvailability returns
isAvailableAfterEffect(memo, tid, timeSlot, date, bookings) ==
    IF timeSlot.isBooked THEN [known |-> TRUE, value |-> FALSE]
    ELSE [known |-> TRUE,
          value |-> checkSlotAvailability(memo, tid, date, timeSlot.value, bookings)]

\* a variant that goes by the isAvailable state alone
isDisabledByStateOnly(timeSlot, isAvailable) == isAvailable.known /\ ~isAvailable.value

\* isDisabled = timeSlot.isBooked || isAvailable === false
isDisabled(timeSlot, isAvailable) ==
    timeSlot.isBooked \/ (isAvailable.known /\ ~isAvailable.value)

\* the buttons are on the screen: a date is selected and the list is not empty
ButtonsRendered == selectedDate # NoDate /\ Len(allTimeSlots) > 0

\* the isAvailable states the button of a slot goes through in the current
\* render: null at its mount, then the result of its effect
ButtonStates(timeSlot) ==
    {NotYetKnown,
     isAvailableAfterEffect(slotAvailability, therapistId, timeSlot, selectedDate,
                            therapistBookings)}

\* handleTimeSelect(time): update({ selectedTime: time })
handleTimeSelect(time) == selectedTime' = time

\* a click on the button of slot p, in one of the states of the button:
\* onClick={() => !isDisabled && handleTimeSelect(timeSlot.value)}; the wizard's
\* data changes and the selector renders again
onClickTimeSlot(p, isAvailable) ==
    /\ ButtonsRendered
    /\ p \in 1..Len(allTimeSlots)
    /\ isAvailable \in ButtonStates(allTimeSlots[p])
    /\ IF ~isDisabled(allTimeSlots[p], isAvailable)
       THEN handleTimeSelect(allTimeSlots[p].value)
       ELSE selectedTime' = selectedTime
    /\ lastClick' = [clicked |-> TRUE, value |-> allTimeSlots[p].value,
                     disabled |-> isDisabled(allTimeSlots[p], isAvailable),
                     before |-> selectedTime, after |-> selectedTime']
    /\ UNCHANGED <<selectedDate, selectedServiceIds, therapistId, businessHours, overrides,
                   services, therapistBookings, deviceOffset, calls, now, bookingRecords,
                   lastCall, officeVars>>
    /\ Render
    /\ Effects

\* a session with a therapist in which the user also picks times
PickNext ==
    \/ \E date \in SessionDates : handleDateSelect(date)
    \/ \E bookings \in SessionBookings : LoadTherapistBookings(bookings)
    \/ \E tid \in {"", "t1"} : SelectTherapist(tid)
    \/ \E p \in 1..Len(allTimeSlots) : \E isAvailable \in ButtonStates(allTimeSlots[p]) :
          onClickTimeSlot(p, isAvailable)

SpecPick == SessionInit /\ [][PickNext]_vars

----------------------------------------------------------------------------
(* The booking service (services/booking.service.ts) *)

\* the largest number of rows of the booking table
MaxRecords == 1

\* the message of the error of a form without its required fields
MissingFields == "Missing required fields: selectedDate and locationId"

\* combineDateAndTimeToUtc(date, time, tz): the instant at which the wall clock of
\* tz shows the calendar day of `date` and the time of day `time`
combineDateAndTimeToUtc(date, time, tz) ==
    At(dateKeyInTZ(date, tz), time[1], time[2], tz)

\* the CreateBookingData the mapping returns: the location, the therapist
\* (formData.therapistId || undefined) and the schedule combined in tz
CreateBookingData(formData, tz) ==
    LET bookingSchedule == combineDateAndTimeToUtc(formData.selectedDate,
                                                   formData.selectedTime, tz)
    IN IF formData.therapistId # ""
       THEN [locationId |-> formData.locationId, therapistId |-> formData.therapistId,
             bookingSchedule |-> bookingSchedule]
       ELSE [locationId |-> formData.locationId, bookingSchedule |-> bookingSchedule]

\* a variant that only asks for the date
mapBookingFormDataToCreateDataDateOnly(formData, tz) ==
    IF formData.selectedDate = NoDate
    THEN [threw |-> TRUE, message |-> MissingFields]
    ELSE [threw |-> FALSE,
          data |-> CreateBookingData(formData, tz)]

\* mapBookingFormDataToCreateData(formData, tz): throws when the date or the
\* location is missing, else the data of the booking to create
mapBookingFormDataToCreateData(formData, tz) ==
    IF formData.selectedDate = NoDate \/ formData.locationId = ""
    THEN [threw |-> TRUE, message |-> MissingFields]
    ELSE [threw |-> FALSE,
          data |-> CreateBookingData(formData, tz)]

\* the row prisma.booking.create stores for createBooking(data): the status is
\* data.status || "Pending"
BookingRow(data) ==
    IF Has(data, "therapistId")
    THEN [locationId |-> data.locationId, therapistId |-> data.therapistId,
          bookingSchedule |-> data.bookingSchedule, status |-> "Pending"]
    ELSE [locationId |-> data.locationId, bookingSchedule |-> data.bookingSchedule,
          status |-> "Pending"]

\* a variant that never looks the location up
timezoneOfFormReferenceOnly(table, formData, lookupOk) == PST_TZ

\* the zone createBookingFromForm hands to the mapping: the one stored with the
\* form's location; the reference zone when the form names no location, when
\* findUnique finds none or one without a zone, and when the query throws
\* (lookupOk is false: the error is logged and the zone stays as initialised)
timezoneOfForm(table, formData, lookupOk) ==
    IF formData.locationId = "" \/ ~lookupOk THEN PST_TZ
    ELSE IF formData.locationId \notin DOMAIN table THEN PST_TZ
    ELSE IF Has(table[formData.locationId], "timezone")
         THEN table[formData.locationId].timezone
         ELSE PST_TZ

\* createBookingFromForm(formData). lookupOk: the query of the location succeeds;
\* createOk: prisma.booking.create succeeds (when it fails the error is thrown on).
createBookingFromForm(formData, lookupOk, createOk) ==
    LET timezone == timezoneOfForm(locations, formData, lookupOk)
        createData == mapBookingFormDataToCreateData(formData, timezone)
    IN /\ (~createData.threw /\ createOk) => Len(bookingRecords) < MaxRecords
       /\ IF createData.threw
          THEN /\ lastCall' = [outcome |-> "error", form |-> formData,
                               lookupOk |-> lookupOk,
                               message |-> createData.message, calledCreateBooking |-> FALSE]
               /\ bookingRecords' = bookingRecords
          ELSE IF createOk
          THEN /\ lastCall' = [outcome |-> "created", form |-> formData,
                               lookupOk |-> lookupOk, data |-> createData.data,
                               booking |-> BookingRow(createData.data),
                               calledCreateBooking |-> TRUE]
               /\ bookingRecords' = Append(bookingRecords, BookingRow(createData.data))
          ELSE /\ lastCall' = [outcome |-> "error", form |-> formData,
                               lookupOk |-> lookupOk, data |-> createData.data,
                               message |-> "prisma.booking.create failed",
                               calledCreateBooking |-> TRUE]
               /\ bookingRecords' = bookingRecords
       /\ UNCHANGED <<selectedDate, selectedServiceIds, therapistId, businessHours, overrides,
                      services, therapistBookings, slotAvailability, allTimeSlots,
                      deviceOffset, calls, now, selectable, returned, pickVars, officeVars>>

\* the forms the wizard submits: with or without a date, with or without a
\* location; "gone" is the id of a location that is not in the table
FormMenu ==
    [selectedDate : {NoDate, At(Mon, 0, 0, PST_TZ)},
     selectedTime : {<<9, 0>>},
     locationId : {"", "la", "ny", "legacy", "gone"},
     therapistId : {"t1"}]

BookingDates == {At(Mon, 0, 0, PST_TZ), At(Tue, 0, 0, PST_TZ)}

\* the selector of a location that is open on Monday morning, a 60-minute service
\* chosen, and an empty booking table
BookingInit ==
    /\ selectedDate = NoDate
    /\ selectedServiceIds = <<"s60">>
    /\ therapistId = ""
    /\ businessHours = << WeeklyHours("Monday", TRUE, <<Window(9, 0, 12, 0, TRUE)>>),
                          WeeklyHours("Tuesday", TRUE, <<Window(9, 0, 12, 0, TRUE)>>) >>
    /\ overrides = <<>>
    /\ services = << [id |-> "s60", duration |-> 60], [id |-> "s45", duration |-> 45],
                     [id |-> "s30", duration |-> 30] >>
    /\ therapistBookings = <<>>
    /\ slotAvailability = <<>>
    /\ allTimeSlots = <<>>
    /\ deviceOffset = PST_TZ
    /\ calls = {}
    /\ now = MountTime
    /\ selectable = [d \in CalendarDates |-> isDateAvailable(d, now, businessHours, overrides)]
    /\ returned = {}
    /\ bookingRecords = <<>>
    /\ lastCall = NoCall
    /\ NothingPicked
    /\ OfficeIdle

\* the wizard submits forms, the hook of the bookings fetches the table again, the
\* user looks at a date
BookingNext ==
    \/ \E formData \in FormMenu : \E lookupOk, createOk \in BOOLEAN :
          createBookingFromForm(formData, lookupOk, createOk)
    \/ LoadTherapistBookings(bookingRecords)
    \/ \E date \in BookingDates : handleDateSelect(date)

SpecBooking == BookingInit /\ [][BookingNext]_vars

----------------------------------------------------------------------------
(* The queries of the booking service (services/booking.service.ts) *)

\* a row of prisma.booking
Row(tid, schedule, status) ==
    [locationId |-> "la", therapistId |-> tid, bookingSchedule |-> schedule,
     status |-> status]

\* a variant of the filter that counts cancelled bookings as well
MatchesSlotAnyStatus(row, tid, schedule) ==
    /\ Has(row, "therapistId") /\ row.therapistId = tid
    /\ row.bookingSchedule = schedule

\* where: { therapistId, bookingSchedule, status: { not: "Cancelled" } }
MatchesSlot(row, tid, schedule) ==
    /\ Has(row, "therapistId") /\ row.therapistId = tid
    /\ row.bookingSchedule = schedule
    /\ row.status # "Cancelled"

\* checkTimeSlotAvailability(therapistId, bookingSchedule), as a value: findFirst
\* over the table, isAvailable: !existingBooking
timeSlotAvailability(table, tid, schedule) ==
    LET found == FindIndex({i \in 1..Len(table) : MatchesSlot(table[i], tid, schedule)})
    IN IF found = 0 THEN [isAvailable |-> TRUE]
       ELSE [isAvailable |-> FALSE, existingBooking |-> table[found]]

\* checkTimeSlotAvailability(therapistId, bookingSchedule). queryOk: the query of
\* the table succeeds (when it fails the error is logged and thrown on)
checkTimeSlotAvailability(tid, schedule, queryOk) ==
    /\ lastQuery' =
          IF queryOk
          THEN [query |-> "checkTimeSlotAvailability", threw |-> FALSE, therapistId |-> tid,
                bookingSchedule |-> schedule, bookings |-> bookingRecords,
                result |-> timeSlotAvailability(bookingRecords, tid, schedule)]
          ELSE [query |-> "checkTimeSlotAvailability", threw |-> TRUE, therapistId |-> tid,
                bookingSchedule |-> schedule]
    /\ UNCHANGED <<selectedDate, selectedServiceIds, therapistId, businessHours, overrides,
                   services, therapistBookings, slotAvailability, allTimeSlots,
                   deviceOffset, calls, now, selectable, returned, bookingRecords, lastCall,
                   pickVars>>
    /\ UNCHANGED <<businessHoursTable, serverOffset, pageVars>>

\* updateBookingStatus(bookingId, status): the row's status is replaced (the
\* position of the row in the table stands for its id)
updateBookingStatus(bookingId, status) ==
    /\ bookingId \in 1..Len(bookingRecords)
    /\ bookingRecords' = [bookingRecords EXCEPT ![bookingId].status = status]
    /\ UNCHANGED <<selectedDate, selectedServiceIds, therapistId, businessHours, overrides,
                   services, therapistBookings, slotAvailability, allTimeSlots,
                   deviceOffset, calls, now, selectable, returned, lastCall, pickVars,
                   officeVars>>

\* date.toLocaleDateString("en-US", { weekday: "long" }): the weekday of the
\* instant on the wall clock of the server (day 0, 1970-01-01, is a Thursday)
weekdayLong(date, offset) ==
    DaysOfWeek[(((WallClock(date, offset) \div MinutesPerDay) + 4) % 7) + 1]

\* d.setHours(hh, mm, 0, 0): the instant of the same day of the server's wall
\* clock at which that clock shows hh:mm
setHours(date, hh, mm, offset) ==
    (WallClock(date, offset) \div MinutesPerDay) * MinutesPerDay + hh * 60 + mm - offset

\* the last minute of the day: setHours(23, 59, 59, 999)
EndOfDay == [hours |-> 23, minutes |-> 59]

\* `${time.getHours()}:${time.getMinutes()}`, each padded to two digits
localTime(date, offset) ==
    LET m == WallClock(date, offset) % MinutesPerDay
    IN <<m \div 60, m % 60>>

\* the value of the inner minutesToTime(minutes): "HH:MM"
minutesToTimeString(minutes) == <<minutes \div 60, minutes % 60>>

\* orderBy: { startTime: "asc" }: the windows by ascending start, windows of
\* equal start in the order of the table
RECURSIVE orderByStartTime(_)
orderByStartTime(slots) ==
    IF slots = <<>> THEN <<>>
    ELSE LET first == FindIndex({i \in 1..Len(slots) :
                         \A j \in 1..Len(slots) :
                            timeToMinutes(slots[i].startTime) <= timeToMinutes(slots[j].startTime)})
         IN <<slots[first]>> \o
            orderByStartTime(SubSeq(slots, 1, first - 1) \o SubSeq(slots, first + 1, Len(slots)))

\* prisma.businessHours.findFirst({ where: { locationId, dayOfWeek, isActive: true },
\* include: { timeSlots: { where: { isActive: true }, orderBy: ... } } }): the
\* position of the row (0: none) ...
findFirstBusinessHours(table, locationId, dayOfWeek) ==
    FindIndex({i \in 1..Len(table) :
                 /\ table[i].locationId = locationId
                 /\ table[i].dayOfWeek = dayOfWeek
                 /\ table[i].isActive})

\* ... and the time slots included with it
includedTimeSlots(row) ==
    orderByStartTime(SelectSeq(row.timeSlots, LAMBDA w : w.isActive))

\* a variant of the therapist's booked times that keeps cancelled bookings
bookedTimesWithCancelled(table, tid, date, offset) ==
    {localTime(table[i].bookingSchedule, offset) : i \in
        {k \in 1..Len(table) :
            /\ Has(table[k], "therapistId") /\ table[k].therapistId = tid
            /\ table[k].bookingSchedule >= setHours(date, 0, 0, offset)
            /\ table[k].bookingSchedule <= setHours(date, EndOfDay.hours, EndOfDay.minutes, offset)}}

\* bookedTimes: the "HH:MM" of the therapist's bookings between startOfDay and
\* endOfDay that are not cancelled
bookedTimes(table, tid, date, offset) ==
    {localTime(table[i].bookingSchedule, offset) : i \in
        {k \in 1..Len(table) :
            /\ Has(table[k], "therapistId") /\ table[k].therapistId = tid
            /\ table[k].bookingSchedule >= setHours(date, 0, 0, offset)
            /\ table[k].bookingSchedule <= setHours(date, EndOfDay.hours, EndOfDay.minutes, offset)
            /\ table[k].status # "Cancelled"}}

\* the step of the server's generation loop
ServerStep == 30

\* the inner loop: for (minutes = startMinutes; minutes < endMinutes; minutes += 30)
RECURSIVE slotInstants(_, _, _, _, _)
slotInstants(minutes, endMinutes, booked, date, offset) ==
    IF minutes >= endMinutes THEN <<>>
    ELSE (IF minutesToTimeString(minutes) \in booked THEN <<>>
          ELSE <<setHours(date, minutes \div 60, minutes % 60, offset)>>)
         \o slotInstants(minutes + ServerStep, endMinutes, booked, date, offset)

\* the outer loop: for (const timeSlot of businessHours.timeSlots)
RECURSIVE availableSlots(_, _, _, _)
availableSlots(timeSlots, booked, date, offset) ==
    IF timeSlots = <<>> THEN <<>>
    ELSE slotInstants(timeToMinutes(Head(timeSlots).startTime),
                      timeToMinutes(Head(timeSlots).endTime), booked, date, offset)
         \o availableSlots(Tail(timeSlots), booked, date, offset)

\* getAvailableTimeSlots(therapistId, date, locationId), as a value
availableTimeSlots(hoursTable, bookingTable, tid, date, locationId, offset) ==
    LET dayOfWeek == weekdayLong(date, offset)
        found == findFirstBusinessHours(hoursTable, locationId, dayOfWeek)
    IN IF found = 0 THEN <<>>
       ELSE IF ~Has(hoursTable[found], "timeSlots") THEN <<>>
       ELSE IF Len(includedTimeSlots(hoursTable[found])) = 0 THEN <<>>
       ELSE availableSlots(includedTimeSlots(hoursTable[found]),
                           bookedTimes(bookingTable, tid, date, offset), date, offset)

\* getAvailableTimeSlots(therapistId, date, locationId). queryOk: the queries
\* succeed (when one fails the error is logged and thrown on)
getAvailableTimeSlots(tid, date, locationId, queryOk) ==
    /\ lastQuery' =
          IF queryOk
          THEN [query |-> "getAvailableTimeSlots", threw |-> FALSE, therapistId |-> tid,
                date |-> date, locationId |-> locationId, bookings |-> bookingRecords,
                result |-> availableTimeSlots(businessHoursTable, bookingRecords, tid, date,
                                              locationId, serverOffset)]
          ELSE [query |-> "getAvailableTimeSlots", threw |-> TRUE, therapistId |-> tid,
                date |-> date, locationId |-> locationId]
    /\ UNCHANGED <<selectedDate, selectedServiceIds, therapistId, businessHours, overrides,
                   services, therapistBookings, slotAvailability, allTimeSlots,
                   deviceOffset, calls, now, selectable, returned, bookingRecords, lastCall,
                   pickVars>>
    /\ UNCHANGED <<businessHoursTable, serverOffset, pageVars>>

\* the zones the server can run in: the reference zone and UTC
ServerOffsets == {PST_TZ, 0}

HoursRow(locationId, day, active, windows) ==
    [locationId |-> locationId, dayOfWeek |-> day, isActive |-> active, timeSlots |-> windows]

\* the business hours stored: none; Monday with an evening window listed before
\* a morning one and a window switched off, Tuesday with one night window,
\* Wednesday switched off, and another location's Monday; Monday and Tuesday
\* with nothing but windows that are switched off or empty
HoursTableMenu ==
    { <<>>,
      << HoursRow("ny", "Monday", TRUE, <<Window(8, 0, 9, 0, TRUE)>>),
         HoursRow("la", "Monday", TRUE,
                  <<Window(17, 0, 18, 0, TRUE), Window(11, 0, 12, 0, FALSE),
                    Window(9, 0, 10, 15, TRUE)>>),
         HoursRow("la", "Tuesday", TRUE, <<Window(1, 0, 2, 0, TRUE), Window(12, 0, 12, 0, TRUE)>>),
         HoursRow("la", "Wednesday", FALSE, <<Window(9, 0, 10, 0, TRUE)>>) >>,
      << HoursRow("la", "Monday", TRUE, <<Window(9, 0, 10, 0, FALSE)>>),
         HoursRow("la", "Tuesday", TRUE, <<>>) >> }

\* the rows the booking table is filled from
RowPool ==
    { Row("t1", At(Mon, 9, 0, PST_TZ), "Pending"),
      Row("t1", At(Mon, 9, 30, PST_TZ), "Cancelled"),
      Row("t1", At(Mon, 17, 0, PST_TZ), "Pending"),
      Row("t2", At(Mon, 9, 30, PST_TZ), "Pending"),
      Row("t1", At(Tue, 9, 0, PST_TZ), "Pending") }

\* the booking tables the service starts with: up to two rows of the pool
RowsMenu ==
    {<<>>} \cup {<<r>> : r \in RowPool}
           \cup {<<r, q>> : r \in RowPool, q \in RowPool}

QueryTherapists == {"t1", "t2"}

\* the instants asked about: the booked ones and one nobody booked
QuerySchedules ==
    {At(Mon, 9, 0, PST_TZ), At(Mon, 9, 30, PST_TZ), At(Mon, 10, 0, PST_TZ)}

\* the dates asked about: Monday morning and Monday evening of the reference zone
\* (Tuesday already in UTC), and Wednesday
QueryDates == {At(Mon, 0, 0, PST_TZ), At(Mon, 17, 0, PST_TZ), At(Tue + 1, 9, 0, PST_TZ)}

BookingStatuses == {"Pending", "Cancelled"}

\* the service over some booking table and some business hours; the selector and
\* the locations page play no part
QueriesInit ==
    /\ selectedDate = NoDate
    /\ selectedServiceIds = <<>>
    /\ therapistId = ""
    /\ businessHours = <<>>
    /\ overrides = <<>>
    /\ services = <<>>
    /\ therapistBookings = <<>>
    /\ slotAvailability = <<>>
    /\ allTimeSlots = <<>>
    /\ deviceOffset = PST_TZ
    /\ calls = {}
    /\ now = MountTime
    /\ selectable = [d \in CalendarDates |-> isDateAvailable(d, now, businessHours, overrides)]
    /\ returned = {}
    /\ bookingRecords \in RowsMenu
    /\ lastCall = NoCall
    /\ NothingPicked
    /\ lastQuery = NoQuery
    /\ businessHoursTable \in HoursTableMenu
    /\ serverOffset \in ServerOffsets
    /\ PageIdle

QueriesNext ==
    \/ \E tid \in QueryTherapists : \E schedule \in QuerySchedules : \E queryOk \in BOOLEAN :
          checkTimeSlotAvailability(tid, schedule, queryOk)
    \/ \E tid \in QueryTherapists : \E date \in QueryDates : \E locationId \in {"la", "ny"} :
          \E queryOk \in BOOLEAN : getAvailableTimeSlots(tid, date, locationId, queryOk)
    \/ \E bookingId \in 1..Len(bookingRecords) : \E status \in BookingStatuses :
          updateBookingStatus(bookingId, status)

SpecQueries == QueriesInit /\ [][QueriesNext]_vars

----------------------------------------------------------------------------
(* The location service (services/location.service.ts) *)

\* tzlookup(lat, lon) of @photostructure/tz-lookup: a RangeError for coordinates
\* outside [-90, 90] x [-180, 180], else the zone of the place (here: by
\* longitude, the reference zone in the west, UTC-5 east of it, UTC elsewhere)
tzlookup(lat, lon) ==
    IF ~(lat >= -90 /\ lat <= 90 /\ lon >= -180 /\ lon <= 180) THEN [threw |-> TRUE]
    ELSE [threw |-> FALSE,
          timezone |-> IF lon < -100 THEN PST_TZ ELSE IF lon < -60 THEN EST_TZ ELSE 0]

\* let timezone; if (data.lat !== undefined && data.lon !== undefined)
\*   timezone = tzlookup(data.lat, data.lon): no timezone field when a coordinate
\* is undefined
timezoneOfData(data) ==
    IF Has(data, "lat") /\ Has(data, "lon") THEN tzlookup(data.lat, data.lon)
    ELSE [threw |-> FALSE]

\* the data handed to prisma: title, lat and lon as far as they are defined, and
\* ...(timezone ? { timezone } : {})
prismaData(data, tz) ==
    [k \in (DOMAIN data \cap {"title", "lat", "lon"})
             \cup (IF Has(tz, "timezone") THEN {"timezone"} ELSE {}) |->
        IF k = "timezone" THEN tz.timezone ELSE data[k]]

\* a variant of the update that stores the row anew, dropping what is not written
updatedRowReplaced(stored, written) == written

\* prisma.location.update: the fields written replace the stored ones, every
\* other field of the row stays
updatedRow(stored, written) ==
    [k \in DOMAIN stored \cup DOMAIN written |->
        IF k \in DOMAIN written THEN written[k] ELSE stored[k]]

\* a table with row `row` under id
WithRow(table, id, row) ==
    [k \in DOMAIN table \cup {id} |-> IF k = id THEN row ELSE table[k]]

\* a table without the row of id
WithoutRow(table, id) == [k \in DOMAIN table \ {id} |-> table[k]]

\* createLocation(data), the new row getting `id`. dbOk: prisma.location.create
\* succeeds. An error of tzlookup or of prisma is logged and thrown on.
createLocationResult(table, id, data, dbOk) ==
    LET tz == timezoneOfData(data)
    IN IF tz.threw \/ ~dbOk THEN [threw |-> TRUE, table |-> table]
       ELSE [threw |-> FALSE, table |-> WithRow(table, id, prismaData(data, tz)),
             written |-> prismaData(data, tz)]

\* updateLocation(id, data). prisma.location.update throws when no row has the id
updateLocationResult(table, id, data, dbOk) ==
    LET tz == timezoneOfData(data)
    IN IF tz.threw \/ ~dbOk \/ id \notin DOMAIN table THEN [threw |-> TRUE, table |-> table]
       ELSE [threw |-> FALSE,
             table |-> WithRow(table, id, updatedRow(table[id], prismaData(data, tz))),
             written |-> prismaData(data, tz)]

\* deleteLocation(id): in one transaction the bookings of the location and the
\* location are deleted; deleting a row that is not there throws
deleteLocationResult(table, bookings, id, dbOk) ==
    IF ~dbOk \/ id \notin DOMAIN table
    THEN [threw |-> TRUE, table |-> table, bookings |-> bookings]
    ELSE [threw |-> FALSE, table |-> WithoutRow(table, id),
          bookings |-> SelectSeq(bookings, LAMBDA b : b.locationId # id)]

\* a row that is not there
NoRow == [missing |-> TRUE]

\* createLocation(data), called through the API
createLocation(data, id, dbOk) ==
    LET result == createLocationResult(locations, id, data, dbOk)
    IN /\ id \notin DOMAIN locations
       /\ locations' = result.table
       /\ invoked' = [operation |-> "createLocation", by |-> "api", id |-> id, data |-> data,
                      threw |-> result.threw, stored |-> NoRow,
                      written |-> IF result.threw THEN NoRow ELSE result.written,
                      row |-> IF result.threw THEN NoRow ELSE result.table[id]]
       /\ UNCHANGED <<selectorVars, bookingRecords, lastCall, pickVars, serviceVars>>
       /\ UNCHANGED <<locationFormData, loading, isAddingNew, expandedLocation,
                      deleteDialogOpen, locationIdToDelete, requestedId>>

\* updateLocation(id, data), called through the API
updateLocation(id, data, dbOk) ==
    LET result == updateLocationResult(locations, id, data, dbOk)
    IN /\ locations' = result.table
       /\ invoked' = [operation |-> "updateLocation", by |-> "api", id |-> id, data |-> data,
                      threw |-> result.threw,
                      stored |-> IF id \in DOMAIN locations THEN locations[id] ELSE NoRow,
                      written |-> IF result.threw THEN NoRow ELSE result.written,
                      row |-> IF id \in DOMAIN result.table THEN result.table[id] ELSE NoRow]
       /\ UNCHANGED <<selectorVars, bookingRecords, lastCall, pickVars, serviceVars>>
       /\ UNCHANGED <<locationFormData, loading, isAddingNew, expandedLocation,
                      deleteDialogOpen, locationIdToDelete, requestedId>>

\* deleteLocation(id), called through the API
deleteLocation(id, dbOk) ==
    LET result == deleteLocationResult(locations, bookingRecords, id, dbOk)
    IN /\ locations' = result.table
       /\ bookingRecords' = result.bookings
       /\ invoked' = [operation |-> "deleteLocation", by |-> "api", id |-> id,
                      threw |-> result.threw]
       /\ UNCHANGED <<selectorVars, lastCall, pickVars, serviceVars>>
       /\ UNCHANGED <<locationFormData, loading, isAddingNew, expandedLocation,
                      deleteDialogOpen, locationIdToDelete, requestedId>>

\* the data the API hands on: without coordinates, with one of them, with both
\* (New York, the origin) and with a latitude that does not exist
LocationDataMenu ==
    { [title |-> "Clinic"],
      [title |-> "Clinic", lat |-> 34],
      [title |-> "Clinic", lon |-> -74],
      [title |-> "Clinic", lat |-> 40, lon |-> -74],
      [title |-> "Clinic", lat |-> 0, lon |-> 0],
      [title |-> "Clinic", lat |-> 95, lon |-> -118] }

\* the ids prisma gives to new rows
NewIds == {"n1"}

\* the ids updateLocation and deleteLocation are called with: a location with a
\* zone stored, a new one, and one that is not in the table
TargetIds == {"la", "n1", "gone"}

\* the service over the location table; the selector and the page play no part
LocationServiceInit ==
    /\ selectedDate = NoDate
    /\ selectedServiceIds = <<>>
    /\ therapistId = ""
    /\ businessHours = <<>>
    /\ overrides = <<>>
    /\ services = <<>>
    /\ therapistBookings = <<>>
    /\ slotAvailability = <<>>
    /\ allTimeSlots = <<>>
    /\ deviceOffset = PST_TZ
    /\ calls = {}
    /\ now = MountTime
    /\ selectable = [d \in CalendarDates |-> isDateAvailable(d, now, businessHours, overrides)]
    /\ returned = {}
    /\ bookingRecords \in {<<>>, <<Row("t1", At(Mon, 9, 0, PST_TZ), "Pending")>>}
    /\ lastCall = NoCall
    /\ NothingPicked
    /\ OfficeIdle

LocationServiceNext ==
    \/ \E data \in LocationDataMenu : \E id \in NewIds : \E dbOk \in BOOLEAN :
          createLocation(data, id, dbOk)
    \/ \E data \in LocationDataMenu : \E id \in TargetIds : \E dbOk \in BOOLEAN :
          updateLocation(id, data, dbOk)
    \/ \E id \in TargetIds : \E dbOk \in BOOLEAN : deleteLocation(id, dbOk)

SpecLocationService == LocationServiceInit /\ [][LocationServiceNext]_vars

----------------------------------------------------------------------------
(* The locations page and its forms (LocationsPage, LocationForm) *)

\* what no handler of the page touches
besidesThePage == <<selectorVars, lastCall, pickVars, serviceVars>>

\* the key of the form of a new location
NewForm == "new"

\* the forms the page shows after a render: one per location of the list (a form
\* keeps its state as long as its location is listed, a new one starts from the
\* location's coordinates) and, while isAddingNew, the form of a new location
mountedForms(table, forms, addingNew) ==
    [k \in DOMAIN table \cup (IF addingNew THEN {NewForm} ELSE {}) |->
        IF k \in DOMAIN forms THEN forms[k]
        ELSE IF k = NewForm THEN InitialFormData(NoRow)
        ELSE InitialFormData(table[k])]

\* parseFloat of what can be typed into a coordinate field: NaN for nothing and
\* for text, the number otherwise
parseFloat(raw) ==
    IF raw \in {"", "abc"} THEN [nan |-> TRUE]
    ELSE [nan |-> FALSE, value |-> (("0" :> 0) @@ ("34" :> 34))[raw]]

\* parseFloat(e.target.value) || 0
parsedOrZero(raw) ==
    IF parseFloat(raw).nan THEN 0
    ELSE IF parseFloat(raw).value = 0 THEN 0 ELSE parseFloat(raw).value

\* a variant that looks at the latitude only
coordinatesMissingLatitude(form) == form.lat = 0

\* coordinatesMissing: !formData.lat || !formData.lon
coordinatesMissing(form) == form.lat = 0 \/ form.lon = 0

\* the save button of a form: disabled={loading || coordinatesMissing}
saveDisabled(form, isLoading) == isLoading \/ coordinatesMissing(form)

\* handleToggleExpanded(locationId), from the header of a form
handleToggleExpanded(key) ==
    /\ key \in DOMAIN locationFormData
    /\ expandedLocation' = IF expandedLocation = key THEN "" ELSE key
    /\ UNCHANGED <<besidesThePage, bookingRecords, locations, locationFormData, loading,
                   isAddingNew, deleteDialogOpen, locationIdToDelete, invoked, requestedId>>

\* handleAddNew, from a button that is disabled while loading
handleAddNew ==
    /\ ~loading
    /\ isAddingNew' = TRUE
    /\ expandedLocation' = NewForm
    /\ locationFormData' = mountedForms(locations, locationFormData, TRUE)
    /\ UNCHANGED <<besidesThePage, bookingRecords, locations, loading, deleteDialogOpen,
                   locationIdToDelete, invoked, requestedId>>

\* handleCancel (also the "reset" button of a form, disabled while loading): the
\* form of a new location is taken away and every form collapsed
handleCancel ==
    /\ isAddingNew' = FALSE
    /\ expandedLocation' = ""
    /\ locationFormData' = mountedForms(locations, locationFormData, FALSE)
    /\ UNCHANGED <<besidesThePage, bookingRecords, locations, loading, deleteDialogOpen,
                   locationIdToDelete, invoked, requestedId>>

\* handleSave, from the global button (disabled while loading): it submits
\* nothing, it closes what is open
handleSave ==
    /\ ~loading
    /\ isAddingNew \/ expandedLocation # ""
    /\ isAddingNew' = FALSE
    /\ expandedLocation' = ""
    /\ locationFormData' = mountedForms(locations, locationFormData, FALSE)
    /\ UNCHANGED <<besidesThePage, bookingRecords, locations, loading, deleteDialogOpen,
                   locationIdToDelete, invoked, requestedId>>

\* useLocationOperations starts or ends an operation: its loading flag changes
SetLoading(flag) ==
    /\ loading' = flag
    /\ UNCHANGED <<besidesThePage, bookingRecords, locations, locationFormData, isAddingNew,
                   expandedLocation, deleteDialogOpen, locationIdToDelete, invoked,
                   requestedId>>

\* handleInputChange(field, parseFloat(e.target.value) || 0) in the expanded form
handleInputChange(key, field, raw) ==
    /\ key \in DOMAIN locationFormData /\ expandedLocation = key
    /\ locationFormData' = [locationFormData EXCEPT ![key][field] = parsedOrZero(raw)]
    /\ UNCHANGED <<besidesThePage, bookingRecords, locations, loading, isAddingNew,
                   expandedLocation, deleteDialogOpen, locationIdToDelete, invoked,
                   requestedId>>

\* the form data a form submits
SubmittedData(form) == [title |-> "Clinic", lat |-> form.lat, lon |-> form.lon]

\* handleCreateLocation(formData): after a successful createLocation the list
\* is fetched again and handleCancel runs
handleCreateLocation(form, id, dbOk) ==
    LET result == createLocationResult(locations, id, SubmittedData(form), dbOk)
    IN /\ id \notin DOMAIN locations
       /\ locations' = result.table
       /\ invoked' = [operation |-> "createLocation", by |-> "onSubmit", form |-> form,
                      wasLoading |-> loading, threw |-> result.threw]
       /\ IF result.threw
          THEN UNCHANGED <<isAddingNew, expandedLocation, locationFormData>>
          ELSE /\ isAddingNew' = FALSE
               /\ expandedLocation' = ""
               /\ locationFormData' = mountedForms(result.table, locationFormData, FALSE)
       /\ UNCHANGED <<besidesThePage, bookingRecords, loading, deleteDialogOpen,
                      locationIdToDelete, requestedId>>

\* handleUpdateLocation(id, formData): after a successful updateLocation the
\* list is fetched again
handleUpdateLocation(id, form, dbOk) ==
    LET result == updateLocationResult(locations, id, SubmittedData(form), dbOk)
    IN /\ locations' = result.table
       /\ invoked' = [operation |-> "updateLocation", by |-> "onSubmit", form |-> form,
                      wasLoading |-> loading, threw |-> result.threw]
       /\ locationFormData' = mountedForms(result.table, locationFormData, isAddingNew)
       /\ UNCHANGED <<besidesThePage, bookingRecords, loading, isAddingNew, expandedLocation,
                      deleteDialogOpen, locationIdToDelete, requestedId>>

\* a click on the save button of the expanded form: onSubmit(formData), unless
\* the button is disabled
clickSave(key, id, dbOk) ==
    /\ key \in DOMAIN locationFormData /\ expandedLocation = key
    /\ ~saveDisabled(locationFormData[key], loading)
    /\ IF key = NewForm THEN handleCreateLocation(locationFormData[key], id, dbOk)
       ELSE handleUpdateLocation(key, locationFormData[key], dbOk)

\* a variant in which the delete icon deletes at once
handleDeleteLocationAtOnce(id) ==
    /\ id \in DOMAIN locationFormData \ {NewForm}
    /\ id \in DOMAIN locations
    /\ locations' = WithoutRow(locations, id)
    /\ locationFormData' = mountedForms(locations', locationFormData, isAddingNew)
    /\ invoked' = [operation |-> "deleteLocation", by |-> "handleDeleteLocation", id |-> id,
                   requested |-> id, threw |-> FALSE]
    /\ requestedId' = id
    /\ UNCHANGED <<besidesThePage, bookingRecords, loading, isAddingNew, expandedLocation,
                   deleteDialogOpen, locationIdToDelete>>

\* handleDeleteLocation(id), from the delete icon of the form of a listed location
handleDeleteLocation(id) ==
    /\ id \in DOMAIN locationFormData \ {NewForm}
    /\ locationIdToDelete' = id
    /\ deleteDialogOpen' = TRUE
    /\ requestedId' = id
    /\ UNCHANGED <<besidesThePage, bookingRecords, locations, locationFormData, loading,
                   isAddingNew, expandedLocation, invoked>>

\* the dialog is dismissed: onOpenChange(false) is setDeleteDialogOpen(false)
dismissDialog ==
    /\ deleteDialogOpen
    /\ deleteDialogOpen' = FALSE
    /\ UNCHANGED <<besidesThePage, bookingRecords, locations, locationFormData, loading,
                   isAddingNew, expandedLocation, locationIdToDelete, invoked, requestedId>>

\* confirmDelete(): returns at once without a pending id; else deleteLocation of
\* the pending id is invoked, after a success the list is fetched again and
\* handleCancel runs, and in any case the dialog is closed and the id forgotten
confirmDelete(dbOk) ==
    IF locationIdToDelete = ""
    THEN /\ invoked' = [operation |-> "none", by |-> "confirmDelete"]
         /\ UNCHANGED <<besidesThePage, bookingRecords, locations, locationFormData, loading,
                        isAddingNew, expandedLocation, deleteDialogOpen, locationIdToDelete,
                        requestedId>>
    ELSE LET result == deleteLocationResult(locations, bookingRecords, locationIdToDelete, dbOk)
         IN /\ locations' = result.table
            /\ bookingRecords' = result.bookings
            /\ invoked' = [operation |-> "deleteLocation", by |-> "confirmDelete",
                           id |-> locationIdToDelete, requested |-> requestedId,
                           threw |-> result.threw]
            /\ IF result.threw
               THEN UNCHANGED <<isAddingNew, expandedLocation, locationFormData>>
               ELSE /\ isAddingNew' = FALSE
                    /\ expandedLocation' = ""
                    /\ locationFormData' = mountedForms(result.table, locationFormData, FALSE)
            /\ deleteDialogOpen' = FALSE
            /\ locationIdToDelete' = ""
            /\ UNCHANGED <<besidesThePage, loading, requestedId>>

\* what is typed into a coordinate field: text, zero, a number
RawInputs == {"abc", "0", "34"}

\* the keys of the forms a user can reach
FormKeys == {"la", "n1", NewForm}

\* everything but the locations page, at rest
BesidesThePageIdle ==
    /\ selectedDate = NoDate
    /\ selectedServiceIds = <<>>
    /\ therapistId = ""
    /\ businessHours = <<>>
    /\ overrides = <<>>
    /\ services = <<>>
    /\ therapistBookings = <<>>
    /\ slotAvailability = <<>>
    /\ allTimeSlots = <<>>
    /\ deviceOffset = PST_TZ
    /\ calls = {}
    /\ now = MountTime
    /\ selectable = [d \in CalendarDates |-> isDateAvailable(d, now, businessHours, overrides)]
    /\ returned = {}
    /\ lastCall = NoCall
    /\ NothingPicked
    /\ lastQuery = NoQuery
    /\ businessHoursTable = <<>>
    /\ serverOffset = 0

\* the page over a table with the Los Angeles location only
LocationFormInit ==
    /\ BesidesThePageIdle
    /\ bookingRecords = <<>>
    /\ PageMounted([k \in {"la"} |-> LocationTable[k]])

\* the user opens forms, edits coordinates and saves; operations start and end
LocationFormNext ==
    \/ \E key \in FormKeys : handleToggleExpanded(key)
    \/ handleAddNew
    \/ handleCancel
    \/ handleSave
    \/ \E flag \in BOOLEAN : SetLoading(flag)
    \/ \E key \in FormKeys : \E field \in {"lat", "lon"} : \E raw \in RawInputs :
          handleInputChange(key, field, raw)
    \/ \E key \in FormKeys : \E id \in NewIds : \E dbOk \in BOOLEAN : clickSave(key, id, dbOk)

SpecLocationForm == LocationFormInit /\ [][LocationFormNext]_vars

\* the page over the whole table, one of its locations with a booking
LocationsPageInit ==
    /\ BesidesThePageIdle
    /\ bookingRecords = <<Row("t1", At(Mon, 9, 0, PST_TZ), "Pending")>>
    /\ PageMounted(LocationTable)

\* the user clicks delete icons, confirms or dismisses the dialog, opens and
\* closes forms; operations start and end
LocationsPageNext ==
    \/ \E id \in DOMAIN LocationTable : handleDeleteLocation(id)
    \/ dismissDialog
    \/ \E dbOk \in BOOLEAN : confirmDelete(dbOk)
    \/ \E key \in DOMAIN LocationTable \cup {NewForm} : handleToggleExpanded(key)
    \/ handleAddNew
    \/ handleCancel
    \/ \E flag \in BOOLEAN : SetLoading(flag)

SpecLocationsPage == LocationsPageInit /\ [][LocationsPageNext]_vars

----------------------------------------------------------------------------
(* The calendar of the selector: which dates can be chosen *)

\* the instants the view can be mounted at: Monday morning, Monday shortly before
\* midnight (Tuesday already in UTC), Tuesday shortly after midnight, Wednesday
NowMenu ==
    { MountTime, At(Mon, 23, 30, PST_TZ), At(Tue, 0, 30, PST_TZ), At(Tue + 1, 9, 0, PST_TZ) }

\* an open override of Monday that carries no list of windows at all
OvBareMon ==
    [startDate |-> At(Mon, 0, 0, PST_TZ), endDate |-> At(Mon, 12, 0, PST_TZ),
     isClosed |-> FALSE]

\* an open override of Monday whose only window is switched off
OvInactiveMon == Override(Mon, Mon, FALSE, <<Window(10, 0, 11, 0, FALSE)>>)

CalendarOverridesMenu ==
    OverridesMenu \cup
    { <<OvBareMon>>,
      <<OvBareMon, OvOpenMonTue>>,
      <<OvOpenMonTue, OvEmptyMon>>,
      <<OvInactiveMon>>,
      <<OvOpenMonTue, OvInactiveMon>> }

\* the selector mounted at some instant, the services loaded and a 30-minute
\* service chosen; hours and overrides arrive afterwards
CalendarInit ==
    /\ selectedDate = NoDate
    /\ selectedServiceIds = <<"s30">>
    /\ therapistId = ""
    /\ businessHours = <<>>
    /\ overrides = <<>>
    /\ services = << [id |-> "s60", duration |-> 60], [id |-> "s45", duration |-> 45],
                     [id |-> "s30", duration |-> 30] >>
    /\ therapistBookings = <<>>
    /\ slotAvailability = <<>>
    /\ allTimeSlots = <<>>
    /\ deviceOffset = PST_TZ
    /\ calls = {}
    /\ now \in NowMenu
    /\ selectable = [d \in CalendarDates |-> isDateAvailable(d, now, businessHours, overrides)]
    /\ returned = {}
    /\ bookingRecords = <<>>
    /\ lastCall = NoCall
    /\ NothingPicked
    /\ OfficeIdle

CalendarNext ==
    \/ \E date \in DateMenu : handleDateSelect(date)
    \/ \E bhs \in BusinessHoursMenu : LoadBusinessHours(bhs)
    \/ \E ovs \in CalendarOverridesMenu : LoadOverrides(ovs)

SpecCalendar == CalendarInit /\ [][CalendarNext]_vars

----------------------------------------------------------------------------
(* Properties of the calculator *)

\* the run of every usable effective window holds exactly the minutes start + k*S
\* that leave room for S before the end, and the output holds nothing but the runs
C1_CandidatesOfWindow ==
    Ready =>
        /\ Len(allTimeSlots) =
              SumSeq([j \in 1..Len(Usable(EffectiveWindows, Duration)) |->
                         CountOf(EffectiveWindows, Duration, j)])
        /\ \A j \in 1..Len(Usable(EffectiveWindows, Duration)) :
              Range(SegmentOf(allTimeSlots, EffectiveWindows, Duration, j))
                 = ExpectedMinutes(Usable(EffectiveWindows, Duration)[j], Duration)

\* the two examples of the specification: 09:00-12:00 gives 09:00, 10:00, 11:00
\* for 60 minutes and 09:00, 09:45, 10:30, 11:15 for 45 minutes
C1_Examples ==
    (Ready /\ EffectiveWindows = <<Window(9, 0, 12, 0, TRUE)>>) =>
        /\ Duration = 60 => Minutes(allTimeSlots) = <<540, 600, 660>>
        /\ Duration = 45 => Minutes(allTimeSlots) = <<540, 585, 630, 675>>

C2_Original ==
    \A i \in 1..Len(WeeklyWindows) :
        LET w == WeeklyWindows[i]
        IN (Has(w, "isActive") /\ w.isActive /\ Duration > 0 /\ Duration <= SpanOf(w))
              => Len(allTimeSlots) = ((SpanOf(w) - Duration) \div Duration) + 1

\* the weekly hours are the effective windows of the selected date: the override
\* consulted, if any, is open and supplies no windows
WeeklyInEffect ==
    FirstContaining = 0
       \/ (~IsClosed(overrides[FirstContaining]) /\ ~SuppliesWindows(overrides[FirstContaining]))

\* C2, amended: when the weekly hours are in effect, each active weekly window of
\* D >= S minutes contributes floor((D - S) / S) + 1 candidates, and the output
\* has as many candidates as these windows contribute together.
C2_CountPerWindow ==
    (Ready /\ WeeklyInEffect) =>
        LET U == Usable(WeeklyWindows, Duration)
            Formula(w) == ((SpanOf(w) - Duration) \div Duration) + 1
        IN /\ Len(allTimeSlots) = SumSeq([j \in 1..Len(U) |-> Formula(U[j])])
           /\ \A j \in 1..Len(U) :
                 /\ Len(SegmentOf(allTimeSlots, WeeklyWindows, Duration, j)) = Formula(U[j])
                 /\ \A p \in 1..Formula(U[j]) :
                       LET m == Minutes(allTimeSlots)[OffsetOf(WeeklyWindows, Duration, j) + p]
                       IN MinuteOfDay(U[j].startTime) <= m
                          /\ m + Duration <= MinuteOfDay(U[j].endTime)

\* C2, witness: two weekly windows of different length have contributed
C2_Witness ==
    /\ Ready /\ WeeklyInEffect /\ Duration = 30
    /\ Len(Usable(WeeklyWindows, Duration)) = 2
    /\ Len(allTimeSlots) = 5

\* C3 as stated: a closed override containing the date empties the list, whatever
\* the other overrides are.
C3_Original ==
    (\E i \in Containing : IsClosed(overrides[i])) => allTimeSlots = <<>>

\* C3, amended: when the first override (in list order) that contains the date is
\* closed, the list is empty, whatever the weekly hours, the duration, the
\* bookings and the other overrides are.
C3_ClosedOverride ==
    (FirstContaining # 0 /\ IsClosed(overrides[FirstContaining])) => allTimeSlots = <<>>

\* C3, witness: a closed override hides weekly hours that would yield candidates
C3_Witness ==
    /\ Ready
    /\ FirstContaining # 0 /\ IsClosed(overrides[FirstContaining])
    /\ Usable(WeeklyWindows, Duration) # <<>>
    /\ allTimeSlots = <<>>

\* C4 as stated: an open override containing the date that supplies windows
\* determines the candidates, whatever the weekly hours are.
C4_Original ==
    \A i \in Containing :
        (~IsClosed(overrides[i]) /\ SuppliesWindows(overrides[i])) =>
            Minutes(allTimeSlots) =
               ExpectedSeq(Usable(WithDefaults(overrides[i].timeSlots), Duration), Duration)

\* C4, amended: when the location has at least one weekly-hours entry and the first
\* override (in list order) that contains the date is open and supplies windows,
\* the candidates are those of the override's windows, whatever the weekly hours.
C4_OverrideWindows ==
    (selectedDate # NoDate /\ businessHours # <<>> /\ FirstContaining # 0) =>
        LET o == overrides[FirstContaining]
        IN (~IsClosed(o) /\ SuppliesWindows(o)) =>
              Minutes(allTimeSlots) =
                 ExpectedSeq(Usable(WithDefaults(o.timeSlots), Duration), Duration)

\* C4, witness: the override's candidates are shown on a day whose weekly windows
\* would have given others
C4_Witness ==
    /\ Ready /\ FirstContaining # 0
    /\ ~IsClosed(overrides[FirstContaining]) /\ SuppliesWindows(overrides[FirstContaining])
    /\ Usable(WeeklyWindows, Duration) # <<>>
    /\ allTimeSlots # <<>>
    /\ Minutes(allTimeSlots) # ExpectedSeq(Usable(WeeklyWindows, Duration), Duration)

\* C5: a candidate is flagged booked exactly when some booking falls, on the wall
\* clock of the reference zone, on the selected day at the candidate's very
\* minute; a booking a minute off, or at that time on another day, does not flag it.
C5_BookedFlag ==
    \A p \in 1..Len(allTimeSlots) :
        allTimeSlots[p].isBooked <=>
            \E i \in 1..Len(therapistBookings) :
                /\ Has(therapistBookings[i], "bookingSchedule")
                /\ WallClock(therapistBookings[i].bookingSchedule, PST_TZ)
                      = dateKeyInTZ(selectedDate, PST_TZ) * MinutesPerDay
                        + MinuteOfDay(allTimeSlots[p].value)

\* C5, witness: one candidate is flagged by a booking at its minute while another
\* is not, although a booking starts one minute after it
C5_Witness ==
    \E p, q \in 1..Len(allTimeSlots) :
        /\ allTimeSlots[p].isBooked /\ ~allTimeSlots[q].isBooked
        /\ \E i \in 1..Len(therapistBookings) :
              /\ Has(therapistBookings[i], "bookingSchedule")
              /\ WallClock(therapistBookings[i].bookingSchedule, PST_TZ)
                    = dateKeyInTZ(selectedDate, PST_TZ) * MinutesPerDay
                      + MinuteOfDay(allTimeSlots[q].value) + 1

Values(slots) == [p \in 1..Len(slots) |-> slots[p].value]

\* C6: a change of the bookings alone (date, weekly hours, overrides and duration
\* as before) leaves the sequence of candidate times as it was: booked candidates
\* stay in the list.
C6_NotFiltered ==
    [][(/\ selectedDate' = selectedDate
        /\ businessHours' = businessHours
        /\ overrides' = overrides
        /\ Duration' = Duration)
         => Values(allTimeSlots') = Values(allTimeSlots)]_vars

\* C6, witness: a list of several candidates of which one is booked
C6_Witness ==
    /\ Len(allTimeSlots) >= 2
    /\ \E p \in 1..Len(allTimeSlots) : allTimeSlots[p].isBooked
    /\ \E p \in 1..Len(allTimeSlots) : ~allTimeSlots[p].isBooked

\* C7: the output is made of one run per usable window, the runs in the order of the
\* effective window list; the candidates of a run lie in its window and ascend
\* strictly.
C7_EmissionOrder ==
    Ready =>
        LET U == Usable(EffectiveWindows, Duration)
            M == Minutes(allTimeSlots)
            From(j) == OffsetOf(EffectiveWindows, Duration, j) + 1
            To(j) == OffsetOf(EffectiveWindows, Duration, j) + CountOf(EffectiveWindows, Duration, j)
        IN /\ Len(M) = SumSeq([j \in 1..Len(U) |-> CountOf(EffectiveWindows, Duration, j)])
           /\ \A j \in 1..Len(U) : \A p \in From(j)..To(j) :
                 /\ MinuteOfDay(U[j].startTime) <= M[p]
                 /\ M[p] + Duration <= MinuteOfDay(U[j].endTime)
                 /\ \A q \in From(j)..To(j) : p < q => M[p] < M[q]

\* C7, witness: the first window of the list lies later in the day than the
\* second, and both have contributed
C7_Witness ==
    /\ Ready
    /\ Len(Usable(EffectiveWindows, Duration)) = 2
    /\ MinuteOfDay(Usable(EffectiveWindows, Duration)[1].startTime)
          > MinuteOfDay(Usable(EffectiveWindows, Duration)[2].endTime)
    /\ CountOf(EffectiveWindows, Duration, 1) >= 2
    /\ CountOf(EffectiveWindows, Duration, 2) >= 2
    /\ Len(allTimeSlots) >= 4

\* C9: without a selected date, with a zero service duration (no service selected,
\* or the selected one not found), without weekly hours, or without effective
\* windows for the date, the slot list is empty.
C9_DegenerateInputs ==
    (\/ selectedDate = NoDate
     \/ Duration = 0
     \/ businessHours = <<>>
     \/ EffectiveWindows = <<>>) => allTimeSlots = <<>>

\* C9, witness: a date with usable weekly windows and a selected service that is
\* not among the loaded services
C9_Witness ==
    /\ selectedDate # NoDate /\ selectedServiceIds # <<>> /\ Duration = 0
    /\ Usable(EffectiveWindows, 30) # <<>>
    /\ allTimeSlots = <<>>

\* C10: every candidate lies in an active effective window of span >= S, with
\* start <= c and c + S <= end; windows that are inactive or too short add nothing
\* (the list is as long as the usable windows alone make it).
C10_UsableWindowsOnly ==
    /\ \A p \in 1..Len(allTimeSlots) :
          \E i \in 1..Len(EffectiveWindows) :
             LET w == EffectiveWindows[i]
                 c == MinuteOfDay(allTimeSlots[p].value)
             IN /\ Has(w, "isActive") /\ w.isActive
                /\ SpanOf(w) >= Duration
                /\ MinuteOfDay(w.startTime) <= c
                /\ c + Duration <= MinuteOfDay(w.endTime)
    /\ Ready =>
          Len(allTimeSlots) =
             SumSeq([j \in 1..Len(Usable(EffectiveWindows, Duration)) |->
                        CountOf(EffectiveWindows, Duration, j)])

\* C10, witness: candidates were produced although one effective window is
\* inactive and another too short
C10_Witness ==
    /\ allTimeSlots # <<>>
    /\ \E i \in 1..Len(EffectiveWindows) :
          ~(Has(EffectiveWindows[i], "isActive") /\ EffectiveWindows[i].isActive)

EntriesOfTheDay ==
    {i \in 1..Len(businessHours) :
        businessHours[i].dayOfWeek = dayOfWeekInTZ(selectedDate, PST_TZ)}

\* C11: on a date that no override contains, the candidates are those of the
\* windows of the weekly entry of the date's weekday (reference zone), provided
\* that entry is active; when the entry is inactive or absent the list is empty;
\* the windows of other weekdays play no part.
C11_WeeklyFallback ==
    (selectedDate # NoDate /\ FirstContaining = 0) =>
        /\ (\A i \in EntriesOfTheDay : ~businessHours[i].isActive) => allTimeSlots = <<>>
        /\ \A i \in EntriesOfTheDay :
              (businessHours[i].isActive /\ Has(businessHours[i], "timeSlots")) =>
                 Minutes(allTimeSlots) =
                    ExpectedSeq(Usable(businessHours[i].timeSlots, Duration), Duration)
        /\ \A p \in 1..Len(allTimeSlots) :
              \E i \in EntriesOfTheDay :
                 /\ businessHours[i].isActive /\ Has(businessHours[i], "timeSlots")
                 /\ \E k \in 1..Len(businessHours[i].timeSlots) :
                       LET w == businessHours[i].timeSlots[k]
                       IN /\ MinuteOfDay(w.startTime) <= MinuteOfDay(allTimeSlots[p].value)
                          /\ MinuteOfDay(allTimeSlots[p].value) + Duration
                                <= MinuteOfDay(w.endTime)

\* C11, witness: a Tuesday without override whose weekly entry is switched off
\* stays empty, although the entry has a usable window and Monday is open
C11_Witness ==
    /\ Ready /\ FirstContaining = 0
    /\ dayOfWeekInTZ(selectedDate, PST_TZ) = "Tuesday"
    /\ \E i \in EntriesOfTheDay :
          /\ ~businessHours[i].isActive
          /\ Usable(businessHours[i].timeSlots, Duration) # <<>>
    /\ \E i \in 1..Len(businessHours) :
          businessHours[i].dayOfWeek = "Monday" /\ businessHours[i].isActive
    /\ allTimeSlots = <<>>

\* a list without its i-th element
Without(list, i) == SubSeq(list, 1, i - 1) \o SubSeq(list, i + 1, Len(list))

\* what the calculator returns for the inputs of the current render when the
\* overrides are ovs
SlotsWith(ovs) ==
    allTimeSlotsCalc(selectedDate, businessHours, ovs, Duration, therapistBookings,
                     deviceOffset)

\* an open override that brings no windows (an empty list, or none)
IsIdle(o) == ~IsClosed(o) /\ ~SuppliesWindows(o)

\* C12 as stated: an open override without windows that contains the date can be
\* removed from the list without changing the slot list.
C12_Original ==
    \A i \in Containing :
        IsIdle(overrides[i]) => allTimeSlots = SlotsWith(Without(overrides, i))

\* C12, amended: when the first override (in list order) that contains the date is
\* open and has no windows, the slot list is the one of the weekly hours, the same
\* as with no override at all; an override that contains the date but is not the
\* first to do so can be removed without changing the slot list.
C12_IdleOverride ==
    /\ (FirstContaining # 0 /\ IsIdle(overrides[FirstContaining])) =>
          /\ allTimeSlots = SlotsWith(<<>>)
          /\ Minutes(allTimeSlots) = ExpectedSeq(Usable(WeeklyWindows, Duration), Duration)
    /\ \A i \in Containing \ {FirstContaining} :
          IsIdle(overrides[i]) => allTimeSlots = SlotsWith(Without(overrides, i))

\* C12, witness: an open override without a list of windows is consulted and the
\* weekly hours of the day are offered
C12_Witness ==
    /\ Ready /\ FirstContaining # 0
    /\ IsIdle(overrides[FirstContaining])
    /\ ~Has(overrides[FirstContaining], "timeSlots")
    /\ allTimeSlots # <<>>

----------------------------------------------------------------------------
(* Properties of the calendar *)

\* what the hours and the overrides alone say about a date: the answer of the
\* predicate on the day itself
OpenOn(d) == isDateAvailable(d, d, businessHours, overrides)

\* C13: a date whose date-key (reference zone) lies before today's cannot be
\* chosen, whatever the weekly hours and the overrides are; for today and for later
\* dates the hours and the overrides alone decide.
C13_PastDates ==
    \A d \in CalendarDates :
        IF dateKeyInTZ(d, PST_TZ) < dateKeyInTZ(now, PST_TZ)
        THEN ~selectable[d]
        ELSE selectable[d] = OpenOn(d)

\* C13, witness: yesterday is refused although the location was open, and today
\* can be chosen although its midnight has passed
C13_Witness ==
    /\ \E d \in CalendarDates :
          /\ dateKeyInTZ(d, PST_TZ) < dateKeyInTZ(now, PST_TZ)
          /\ OpenOn(d) /\ ~selectable[d]
    /\ \E d \in CalendarDates :
          /\ dateKeyInTZ(d, PST_TZ) = dateKeyInTZ(now, PST_TZ)
          /\ d < now /\ selectable[d]

\* the effective windows of the selected date include an active one
HasActiveWindow ==
    \E i \in 1..Len(EffectiveWindows) :
        Has(EffectiveWindows[i], "isActive") /\ EffectiveWindows[i].isActive

\* C14 as stated: a date that is not past can be chosen exactly when the effective
\* windows the calculator resolves for it include an active window.
C14_Original ==
    (selectedDate # NoDate /\ dateKeyInTZ(selectedDate, PST_TZ) >= dateKeyInTZ(now, PST_TZ)) =>
        (selectable[selectedDate] <=> HasActiveWindow)

\* C19: of the overrides that contain the date, only the first in list order
\* counts: the slot list and the answer of the calendar are those of the same
\* inputs with that override alone; a later override that contains the date, closed
\* or not, changes neither.
C19_FirstOverrideOnly ==
    (selectedDate # NoDate /\ FirstContaining # 0) =>
        /\ allTimeSlots = SlotsWith(<<overrides[FirstContaining]>>)
        /\ selectable[selectedDate] =
              isDateAvailable(selectedDate, now, businessHours, <<overrides[FirstContaining]>>)
        /\ \A i \in Containing \ {FirstContaining} :
              /\ allTimeSlots = SlotsWith(Without(overrides, i))
              /\ selectable[selectedDate] =
                    isDateAvailable(selectedDate, now, businessHours, Without(overrides, i))

\* C19, witness: a closed override of the date comes second; the date can be
\* chosen and has slots
C19_Witness ==
    /\ selectedDate # NoDate /\ FirstContaining # 0
    /\ \E i \in Containing : i > FirstContaining /\ IsClosed(overrides[i])
    /\ allTimeSlots # <<>>
    /\ selectable[selectedDate]

----------------------------------------------------------------------------
(* Properties of the memo *)

\* C15 as stated: once another date is selected, the memo holds no entry of the
\* date that was selected before.
C15_Original ==
    [][(/\ selectedDate # NoDate
        /\ dateKeyInTZ(selectedDate', PST_TZ) # dateKeyInTZ(selectedDate, PST_TZ))
         => \A k \in DOMAIN slotAvailability' : k[1] # dateKeyInTZ(selectedDate, PST_TZ)]_vars

\* C15, amended: the memo is never cleared while the view is mounted: every step,
\* the selection of another date included, keeps each entry of the memo with the
\* value it had.
C15_MemoKept ==
    [][\A k \in DOMAIN slotAvailability :
          k \in DOMAIN slotAvailability' /\ slotAvailability'[k] = slotAvailability[k]]_vars

\* C15, witness: with Tuesday selected, the memo holds entries of Monday
C15_Witness ==
    /\ selectedDate # NoDate
    /\ \E k \in DOMAIN slotAvailability : k[1] # dateKeyInTZ(selectedDate, PST_TZ)
    /\ \E k \in DOMAIN slotAvailability : k[1] = dateKeyInTZ(selectedDate, PST_TZ)

\* C16: with a therapist selected, every value checkSlotAvailability(date, time)
\* returns is the negation of isTimeSlotBooked(date, time) on the bookings of the
\* moment, whatever the memo has kept from earlier booking lists.
C16_MemoTransparent ==
    therapistId # "" =>
        \A r \in returned :
            r.available = ~isTimeSlotBooked(r.date, r.timeSlot, therapistBookings)

\* C16, witness: answers were given while the memo still holds, for a slot of the
\* selected date that has been booked since, the entry of the time it was free
C16_Witness ==
    /\ therapistId # "" /\ selectedDate # NoDate
    /\ returned # {}
    /\ \E r \in returned : slotKey(r.date, r.timeSlot) \in DOMAIN slotAvailability
    /\ \E k \in DOMAIN slotAvailability :
          /\ k[1] = dateKeyInTZ(selectedDate, PST_TZ)
          /\ slotAvailability[k]
          /\ isTimeSlotBooked(selectedDate, k[2], therapistBookings)

----------------------------------------------------------------------------
(* Properties of the booking service *)

\* C18 as stated: once a booking made from a form with date d and time t is among
\* the bookings the selector has loaded, the calculator flags slot t of date d as
\* booked, whatever the zone stored with the location is.
C18_Original ==
    (/\ lastCall.outcome = "created"
     /\ selectedDate # NoDate
     /\ dateKeyInTZ(selectedDate, PST_TZ) = dateKeyInTZ(lastCall.form.selectedDate, PST_TZ)
     /\ \E i \in 1..Len(therapistBookings) : therapistBookings[i] = lastCall.booking)
      => /\ isTimeSlotBooked(selectedDate, lastCall.form.selectedTime, therapistBookings)
         /\ \A p \in 1..Len(allTimeSlots) :
               allTimeSlots[p].value = lastCall.form.selectedTime => allTimeSlots[p].isBooked

\* a call of createBookingFromForm whose form lacks the date or the location
MissingRequired(call) ==
    call.outcome # "none"
       /\ (call.form.selectedDate = NoDate \/ call.form.locationId = "")

\* C20: mapBookingFormDataToCreateData throws "Missing required fields:
\* selectedDate and locationId" for every form without a date or without a
\* location, and a call of createBookingFromForm with such a form ends with that
\* error, without a call of createBooking and without a new row in the table.
C20_MissingFields ==
    [][/\ \A formData \in FormMenu : \A tz \in {PST_TZ, EST_TZ} :
             (formData.selectedDate = NoDate \/ formData.locationId = "") =>
                /\ mapBookingFormDataToCreateData(formData, tz).threw
                /\ mapBookingFormDataToCreateData(formData, tz).message = MissingFields
       /\ (lastCall' # lastCall /\ MissingRequired(lastCall')) =>
             /\ lastCall'.outcome = "error"
             /\ lastCall'.message = MissingFields
             /\ ~lastCall'.calledCreateBooking
             /\ bookingRecords' = bookingRecords]_vars

\* C20, witness: a form with a date but without a location was refused
C20_Witness ==
    /\ lastCall.outcome = "error"
    /\ lastCall.form.selectedDate # NoDate /\ lastCall.form.locationId = ""
    /\ lastCall.message = MissingFields
    /\ ~lastCall.calledCreateBooking

\* a call of createBookingFromForm whose form has a date and a location
Complete(call) ==
    call.outcome # "none"
       /\ call.form.selectedDate # NoDate /\ call.form.locationId # ""

\* the location of the call's form is in the table and has a zone stored, and
\* the query of the location succeeded
FoundZone(call) ==
    /\ call.lookupOk
    /\ call.form.locationId \in DOMAIN locations
    /\ Has(locations[call.form.locationId], "timezone")

\* C21: createBookingFromForm combines date and time in the zone stored with the
\* form's location when there is one, and in the reference zone PST_TZ when the
\* location is not in the table, has no zone stored, or the query of the location
\* throws; a query that throws never keeps createBooking from being called.
C21_LocationZone ==
    Complete(lastCall) =>
       /\ lastCall.calledCreateBooking
       /\ FoundZone(lastCall) =>
             lastCall.data.bookingSchedule =
                combineDateAndTimeToUtc(lastCall.form.selectedDate, lastCall.form.selectedTime,
                                        locations[lastCall.form.locationId].timezone)
       /\ ~FoundZone(lastCall) =>
             lastCall.data.bookingSchedule =
                combineDateAndTimeToUtc(lastCall.form.selectedDate, lastCall.form.selectedTime,
                                        PST_TZ)

\* C21, witness: the query of the New York location threw, and the booking was
\* created all the same, scheduled in the reference zone and not in New York's
C21_Witness ==
    /\ lastCall.outcome = "created"
    /\ lastCall.form.locationId = "ny" /\ ~lastCall.lookupOk
    /\ lastCall.booking.bookingSchedule =
          combineDateAndTimeToUtc(lastCall.form.selectedDate, lastCall.form.selectedTime, PST_TZ)
    /\ lastCall.booking.bookingSchedule #
          combineDateAndTimeToUtc(lastCall.form.selectedDate, lastCall.form.selectedTime, EST_TZ)

\* the rows of a table that keep the therapist's instant taken: same therapist,
\* identical instant, status other than Cancelled
Blocking(table, tid, schedule) ==
    {i \in 1..Len(table) :
        /\ Has(table[i], "therapistId") /\ table[i].therapistId = tid
        /\ table[i].bookingSchedule = schedule
        /\ table[i].status # "Cancelled"}

\* C22: checkTimeSlotAvailability(therapistId, schedule) reports isAvailable = true
\* exactly when the table holds no booking of that therapist at the identical
\* instant with a status other than Cancelled; the booking it reports for an
\* unavailable slot is never a cancelled one, one of another therapist or one at
\* another instant.
C22_TimeSlotAvailability ==
    (lastQuery.query = "checkTimeSlotAvailability" /\ ~lastQuery.threw) =>
       /\ lastQuery.result.isAvailable <=>
             Blocking(lastQuery.bookings, lastQuery.therapistId, lastQuery.bookingSchedule) = {}
       /\ ~lastQuery.result.isAvailable =>
             /\ lastQuery.result.existingBooking.therapistId = lastQuery.therapistId
             /\ lastQuery.result.existingBooking.bookingSchedule = lastQuery.bookingSchedule
             /\ lastQuery.result.existingBooking.status # "Cancelled"

\* C22, witness: the table holds a cancelled booking of the therapist at the
\* instant asked about and a booking of another therapist at the same instant,
\* and the slot was reported available
C22_Witness ==
    /\ lastQuery.query = "checkTimeSlotAvailability" /\ ~lastQuery.threw
    /\ lastQuery.result.isAvailable
    /\ \E i, j \in 1..Len(lastQuery.bookings) :
          /\ lastQuery.bookings[i].therapistId = lastQuery.therapistId
          /\ lastQuery.bookings[i].bookingSchedule = lastQuery.bookingSchedule
          /\ lastQuery.bookings[i].status = "Cancelled"
          /\ lastQuery.bookings[j].therapistId # lastQuery.therapistId
          /\ lastQuery.bookings[j].bookingSchedule = lastQuery.bookingSchedule
          /\ lastQuery.bookings[j].status # "Cancelled"

\* an answer of getAvailableTimeSlots
IsAnswer(q) == q.query = "getAvailableTimeSlots" /\ ~q.threw

\* the day of the date asked about, on the wall clock of the server
DayAsked(q) == WallClock(q.date, serverOffset) \div MinutesPerDay

\* the active business-hours entries of the location for the weekday of that day
\* that have an active time slot
EntriesAsked(q) ==
    {i \in 1..Len(businessHoursTable) :
        /\ businessHoursTable[i].locationId = q.locationId
        /\ businessHoursTable[i].dayOfWeek = DaysOfWeek[((DayAsked(q) + 4) % 7) + 1]
        /\ businessHoursTable[i].isActive
        /\ \E w \in Range(businessHoursTable[i].timeSlots) : w.isActive}

\* the times of day at which the therapist has a booking that is not cancelled
\* on the day asked about
TakenTimes(q) ==
    {WallClock(q.bookings[i].bookingSchedule, serverOffset) % MinutesPerDay :
        i \in {k \in 1..Len(q.bookings) :
                  /\ q.bookings[k].therapistId = q.therapistId
                  /\ q.bookings[k].status # "Cancelled"
                  /\ WallClock(q.bookings[k].bookingSchedule, serverOffset) \div MinutesPerDay
                        = DayAsked(q)}}

\* the starts an entry offers: for each active time slot w (by its position) the
\* minutes start + 30k before its end that are not taken
Offered(q, entry) ==
    {pair \in (1..Len(entry.timeSlots)) \X (0..(MinutesPerDay - 1)) :
        LET slot == entry.timeSlots[pair[1]]
            start == slot.startTime[1] * 60 + slot.startTime[2]
            end == slot.endTime[1] * 60 + slot.endTime[2]
        IN /\ slot.isActive
           /\ pair[2] >= start /\ pair[2] < end
           /\ (pair[2] - start) % 30 = 0
           /\ pair[2] \notin TakenTimes(q)}

\* pair a comes before pair b: its time slot starts earlier, or it is an earlier
\* minute of the same time slot
Before(entry, a, b) ==
    LET StartOf(w) == entry.timeSlots[w].startTime[1] * 60 + entry.timeSlots[w].startTime[2]
    IN \/ StartOf(a[1]) < StartOf(b[1])
       \/ a[1] = b[1] /\ a[2] < b[2]

\* C23: getAvailableTimeSlots returns [] when the location has no active
\* business-hours entry with an active time slot for the weekday of the date;
\* otherwise it returns, time slot after time slot in ascending order of their
\* starts, the instants of that day at start + 30k minutes that lie strictly
\* before the slot's end, leaving out those whose HH:MM is the HH:MM of a booking
\* of the therapist on that day that is not cancelled, and no others. Weekday,
\* day and HH:MM are those of the server's wall clock, the only clock the
\* function reads.
C23_AvailableTimeSlots ==
    IsAnswer(lastQuery) =>
       IF EntriesAsked(lastQuery) = {} THEN lastQuery.result = <<>>
       ELSE \A i \in EntriesAsked(lastQuery) :
               LET entry == businessHoursTable[i]
                   offered == Offered(lastQuery, entry)
               IN /\ Len(lastQuery.result) = Cardinality(offered)
                  /\ \A a \in offered :
                        lastQuery.result[1 + Cardinality({b \in offered : Before(entry, b, a)})]
                           = DayAsked(lastQuery) * MinutesPerDay + a[2] - serverOffset

\* C23, witness: an answer for a day with two active time slots, listed in the
\* table with the later one first, on which the therapist has a booking that is
\* not cancelled and a cancelled one: the time of the first is left out, the time
\* of the cancelled one is offered
C23_Witness ==
    /\ IsAnswer(lastQuery)
    /\ Len(lastQuery.result) >= 3
    /\ \E i, j \in 1..Len(lastQuery.bookings) :
          /\ lastQuery.bookings[i].therapistId = lastQuery.therapistId
          /\ lastQuery.bookings[i].status # "Cancelled"
          /\ lastQuery.bookings[j].therapistId = lastQuery.therapistId
          /\ lastQuery.bookings[j].status = "Cancelled"
          /\ lastQuery.bookings[i].bookingSchedule \notin Range(lastQuery.result)
          /\ lastQuery.bookings[j].bookingSchedule \in Range(lastQuery.result)
          /\ lastQuery.bookings[i].bookingSchedule - lastQuery.bookings[j].bookingSchedule \in {-30, 30}
    /\ \E n \in 1..(Len(lastQuery.result) - 1) :
          lastQuery.result[n + 1] - lastQuery.result[n] > 30

----------------------------------------------------------------------------
(* Properties of the location service and of the locations page *)

\* a call of createLocation or updateLocation that went through
Wrote(op) == op.operation \in {"createLocation", "updateLocation"} /\ ~op.threw

\* both coordinates are provided with the data of the call
BothProvided(op) == Has(op.data, "lat") /\ Has(op.data, "lon")

\* C24: createLocation and updateLocation write a timezone exactly when both lat
\* and lon are provided, the zone tzlookup derives from them; when either
\* coordinate is undefined no timezone field is written, so that updateLocation
\* leaves the zone stored with the location as it was. (A call that throws, be it
\* tzlookup rejecting the coordinates or the database, writes nothing at all.)
C24_TimezoneWritten ==
    /\ Wrote(invoked) =>
          /\ Has(invoked.written, "timezone") <=> BothProvided(invoked)
          /\ BothProvided(invoked) =>
                /\ invoked.written.timezone = tzlookup(invoked.data.lat, invoked.data.lon).timezone
                /\ invoked.row.timezone = invoked.written.timezone
          /\ (~BothProvided(invoked) /\ invoked.operation = "updateLocation") =>
                /\ Has(invoked.row, "timezone") <=> Has(invoked.stored, "timezone")
                /\ Has(invoked.stored, "timezone") =>
                      invoked.row.timezone = invoked.stored.timezone
          /\ (~BothProvided(invoked) /\ invoked.operation = "createLocation") =>
                ~Has(invoked.row, "timezone")
    /\ (invoked.operation \in {"createLocation", "updateLocation"} /\ invoked.threw) =>
          invoked.row = invoked.stored

\* C24, witness: an update of the Los Angeles location that moved its longitude
\* to New York's without giving a latitude: the zone stored is still the old one
C24_Witness ==
    /\ Wrote(invoked) /\ invoked.operation = "updateLocation"
    /\ Has(invoked.data, "lon") /\ ~Has(invoked.data, "lat")
    /\ invoked.row.lon = invoked.data.lon /\ invoked.row.lon # invoked.stored.lon
    /\ invoked.stored.timezone = PST_TZ /\ invoked.row.timezone = PST_TZ

\* C25: LocationForm prevents submission without coordinates: whatever has been
\* typed into the fields, the save button of a form is disabled while its
\* latitude or its longitude is missing (0, which is also what unparsable input
\* becomes) or while an operation is loading, and onSubmit has never been called
\* with such a form or during loading.
C25_NoSubmitWithoutCoordinates ==
    /\ \A raw \in RawInputs : parseFloat(raw).nan => parsedOrZero(raw) = 0
    /\ \A key \in DOMAIN locationFormData :
          (loading \/ locationFormData[key].lat = 0 \/ locationFormData[key].lon = 0)
             => saveDisabled(locationFormData[key], loading)
    /\ invoked.operation # "none" =>
          /\ invoked.by = "onSubmit"
          /\ invoked.form.lat # 0 /\ invoked.form.lon # 0
          /\ ~invoked.wasLoading

\* C25, witness: after a submission, the expanded form has a latitude and no
\* longitude and nothing is loading: its save button is disabled
C25_Witness ==
    /\ invoked.operation = "createLocation"
    /\ ~loading
    /\ expandedLocation \in DOMAIN locationFormData
    /\ locationFormData[expandedLocation].lat # 0
    /\ locationFormData[expandedLocation].lon = 0
    /\ saveDisabled(locationFormData[expandedLocation], loading)

\* C26: on the locations page a location is deleted only through the
\* confirmation: a step that takes a location (or a booking) away is a step of
\* confirmDelete that invoked deleteLocation with the pending id, which is the id
\* most recently passed to handleDeleteLocation; the delete operation is invoked
\* by nothing else, so clicking a delete icon or dismissing the dialog deletes
\* nothing; and confirmDelete without a pending id changes nothing.
C26_DeleteOnlyConfirmed ==
    [][/\ (locations' # locations \/ bookingRecords' # bookingRecords) =>
             /\ invoked'.operation = "deleteLocation" /\ invoked'.by = "confirmDelete"
             /\ DOMAIN locations \ DOMAIN locations' = {invoked'.id}
             /\ DOMAIN locations' \subseteq DOMAIN locations
       /\ (invoked' # invoked /\ invoked'.operation = "deleteLocation") =>
             /\ invoked'.by = "confirmDelete"
             /\ invoked'.id = locationIdToDelete
             /\ invoked'.id = requestedId
       /\ (invoked' # invoked /\ invoked'.operation = "none") =>
             /\ locationIdToDelete = ""
             /\ UNCHANGED <<locations, bookingRecords, locationFormData, loading, isAddingNew,
                            expandedLocation, deleteDialogOpen, locationIdToDelete>>
       /\ (locationIdToDelete' # "" /\ locationIdToDelete' # locationIdToDelete) =>
             locationIdToDelete' = requestedId']_vars

\* C26, witness: the delete icon of the Los Angeles location was the last one
\* clicked and the confirmation deleted that location with its booking; New York
\* is still listed, the dialog is closed and no id is pending
C26_Witness ==
    /\ invoked.operation = "deleteLocation" /\ ~invoked.threw
    /\ invoked.id = "la" /\ invoked.requested = "la"
    /\ "la" \notin DOMAIN locations /\ "ny" \in DOMAIN locations
    /\ bookingRecords = <<>>
    /\ ~deleteDialogOpen /\ locationIdToDelete = ""

----------------------------------------------------------------------------
(* Properties of the slot buttons *)

\* C27: after any sequence of refreshes of the booking list, changes of the date
\* and of the therapist, and renders, a rendered slot button is disabled, in
\* every state it goes through, exactly when its slot is booked under the
\* booking list of the current render, whatever the memo slotAvailability holds;
\* and a click on a disabled button has never changed selectedTime.
C27_DisabledIffBooked ==
    /\ ButtonsRendered =>
          \A p \in 1..Len(allTimeSlots) : \A isAvailable \in ButtonStates(allTimeSlots[p]) :
             isDisabled(allTimeSlots[p], isAvailable)
                <=> isTimeSlotBooked(selectedDate, allTimeSlots[p].value, therapistBookings)
    /\ (lastClick.clicked /\ lastClick.disabled) => lastClick.after = lastClick.before

\* C27, witness: with a therapist chosen and the memo holding "available" for
\* the 09:00 slot of the selected Monday, that slot is booked in the current list
\* and its button disabled, and a click on it left the time chosen before as it was
C27_Witness ==
    /\ ButtonsRendered /\ therapistId # ""
    /\ slotKey(selectedDate, <<9, 0>>) \in DOMAIN slotAvailability
    /\ slotAvailability[slotKey(selectedDate, <<9, 0>>)]
    /\ \E p \in 1..Len(allTimeSlots) :
          /\ allTimeSlots[p].value = <<9, 0>> /\ allTimeSlots[p].isBooked
          /\ \A isAvailable \in ButtonStates(allTimeSlots[p]) :
                isDisabled(allTimeSlots[p], isAvailable)
    /\ lastClick.clicked /\ lastClick.disabled /\ lastClick.value = <<9, 0>>
    /\ lastClick.before # NoTime /\ selectedTime = lastClick.before

====
